---- MODULE Spec2Model ----
(***************************************************************************)
(* The metrics collector of lambda-gopher-benchmark                        *)
(* (internal/metrics/collector.go): a table of named test runs, a pointer  *)
(* to the current run, and MeasureOperation calls of several goroutines    *)
(* that check the pointer, run their callback outside the lock and then    *)
(* append their metric under the lock.                                     *)
(* SpecLock follows the mutex of the collector step by step; SpecExecute   *)
(* is the generic Read and Write strategy of package operations, whose     *)
(* workers reach storage through MeasureOperation. SpecHandler is          *)
(* handleRequest of the benchmark Lambda, from StartTest to its response,  *)
(* with the strategies its factory makes, Query among them; SpecFactory is *)
(* the OperationFactory and the ledger (ImmuDB) write and read strategies. *)
(***************************************************************************)
EXTENDS Integers, Sequences, FiniteSets, TLC

\* ------------------------------------------------------------- bounds
\* MeasureOperation calls in flight at once (goroutines)
MaxInFlight == 2
\* MeasureOperation calls that reach their callback and TestResults allocated,
\* under Spec
MaxCalls == 2
MaxRuns == 2
\* the same under SpecStats, where one goroutine works through a scripted workload
MaxStatCalls == 12
\* runs started and calls measured while the whole interface is exercised
MaxApiRuns == 2
MaxApiCalls == 1
\* goroutines in MeasureOperation while the lock is followed step by step
MaxLockGoroutines == 2
\* items, batch sizes and concurrency of a strategy's execution
MaxItems == 3
MaxBatchSize == 2
MaxConcurrency == 2

\* ------------------------------------------------------------- values
\* a nil *TestResult; runs are numbered 1.. in allocation order
NilRun == 0
\* a sync.Mutex nobody holds; goroutines are numbered 1..
Unlocked == 0
\* no strategy is executing
NoExecute == [pc |-> "none"]

\* no request is being handled
NoHandler == [pc |-> "none"]

\* a nil error
NoError == "nil"
ErrNilOperation == "operation function cannot be nil"
ErrNoTest == "no test is currently running"

Names == {"A", "B"}
\* test.EndTime.Sub(test.StartTime), in ns
TestDurations == {3}
StatTestDurations == {0, 3}

\* the arguments (opType, itemCount, byteCount, isColdStart) of a call
ReadInput == [type |-> "READ", itemCount |-> 1, byteCount |-> 100, isColdStart |-> FALSE]
WriteInput == [type |-> "WRITE", itemCount |-> 2, byteCount |-> 50, isColdStart |-> TRUE]

\* the keys EndTest computes
StatKeys ==
    { "operationCount", "totalDuration", "avgDuration", "totalItems", "totalBytes",
      "successCount", "errorCount", "successRate", "throughputItems",
      "throughputBytes", "coldStartCount" }
PercentileKeys == {"p50", "p90", "p99"}
\* the names and values callers pass to AddCustomMetric
CustomKeys == {"note", "successCount", "p50"}
CustomValues == {7}
\* the key the callers of the whole interface pass to AddCustomMetric
ApiKeys == {"note"}

VARIABLES
    heap,          \* the TestResult objects allocated so far
    tests,         \* Collector.tests: name -> run (NilRun: no entry)
    currentTest,   \* Collector.currentTest
    calls,         \* the MeasureOperation calls that passed the checks, in that order
    workload,      \* what the work callbacks of this execution do
    ret,           \* the value the latest collector call returned
    mu,            \* Collector.mu: Unlocked, or the goroutine that holds it
    goroutines,    \* where each goroutine stands in its MeasureOperation calls
    handler,       \* the handleRequest in progress: its request, step and response
    exec           \* the execution of a strategy: its parameters, workers and result

vars == <<heap, tests, currentTest, calls, workload, ret, mu, goroutines, handler, exec>>

\* what the callers of the collector hold beside it
callers == <<mu, goroutines, handler, exec>>

\* ------------------------------------------------------------- maps
EmptyMap == [k \in {} |-> 0]

Put(m, k, v) == [x \in DOMAIN m \cup {k} |-> IF x = k THEN v ELSE m[x]]

Returned(op, name, run, err) ==
    [op |-> op, name |-> name, run |-> run, err |-> err]

\* the latest step returned nothing to its caller
NoReturn == Returned("", "", NilRun, NoError)

\* ------------------------------------------------------------- work callbacks
\* what the callers of one execution do: call i is a read, or a write at every
\* second call when w = 1; its callback takes 1 + (a*i + b) % 3 ns and fails when
\* (i + p) % 2 < f
Workloads == [a : 0..2, b : 0..2, f : 0..2, p : 0..1, w : 0..1]

\* under Spec: reads and writes in turn, every second callback failing
ConcurrentWorkloads == {wl \in Workloads : wl.a = 0 /\ wl.b = 0 /\ wl.f = 1 /\ wl.w = 1}

\* under SpecStats
ScriptedWorkloads == {wl \in Workloads : wl.p = 0}

ScriptInput(wl, i) == IF wl.w = 1 /\ i % 2 = 0 THEN WriteInput ELSE ReadInput

ScriptError(wl, i) == IF (i + wl.p) % 2 < wl.f THEN "e1" ELSE NoError

ScriptDuration(wl, i) == 1 + ((wl.a * i + wl.b) % 3)

\* ------------------------------------------------------------- NewCollector
InitCollector ==
    /\ heap = <<>>
    /\ tests = [n \in Names |-> NilRun]
    /\ currentTest = NilRun
    /\ calls = <<>>
    /\ ret = NoReturn

\* callers whose steps are whole collector operations, each under the lock
NoCallers ==
    /\ mu = Unlocked
    /\ goroutines = <<>>
    /\ handler = NoHandler
    /\ exec = NoExecute

Init ==
    /\ InitCollector
    /\ NoCallers
    /\ workload \in ConcurrentWorkloads

InitStats ==
    /\ InitCollector
    /\ NoCallers
    /\ workload \in ScriptedWorkloads

\* ------------------------------------------------------------- StartTest
\* custom: the names given to AddCustomMetric for this run, with the last value of each
NewTestResult(name) ==
    [TestName |-> name, Operations |-> <<>>, Summary |-> EmptyMap,
     ended |-> FALSE, Duration |-> 0, custom |-> EmptyMap]

\* a bug: starting a run empties the table of the runs under other names
StartTestAlone(name, maxRuns) ==
    /\ Len(heap) < maxRuns
    /\ heap' = Append(heap, NewTestResult(name))
    /\ currentTest' = Len(heap) + 1
    /\ tests' = [n \in Names |-> IF n = name THEN Len(heap) + 1 ELSE NilRun]
    /\ ret' = NoReturn
    /\ UNCHANGED <<calls, workload>>

\* a bug: a name already in the table keeps its stored run
StartTestKeepsStored(name, maxRuns) ==
    /\ Len(heap) < maxRuns
    /\ heap' = Append(heap, NewTestResult(name))
    /\ currentTest' = Len(heap) + 1
    /\ tests' = IF tests[name] = NilRun
                THEN [tests EXCEPT ![name] = Len(heap) + 1]
                ELSE tests
    /\ ret' = NoReturn
    /\ UNCHANGED <<calls, workload>>

\* a bug: line 83 left out, the new run is current and is not in the table
StartTestUnstored(name, maxRuns) ==
    /\ Len(heap) < maxRuns
    /\ heap' = Append(heap, NewTestResult(name))
    /\ currentTest' = Len(heap) + 1
    /\ ret' = NoReturn
    /\ UNCHANGED <<tests, calls, workload>>

StartTest(name, maxRuns) ==
    /\ Len(heap) < maxRuns
    /\ heap' = Append(heap, NewTestResult(name))
    /\ currentTest' = Len(heap) + 1
    /\ tests' = [tests EXCEPT ![name] = Len(heap) + 1]
    /\ ret' = NoReturn
    /\ UNCHANGED <<calls, workload>>

\* ------------------------------------------------------------- MeasureOperation
InFlight == {c \in 1..Len(calls) : calls[c].pc # "returned"}

\* a bug: lines 98-103 left out, a call starts whether or not a run is current
MeasureBeginUnchecked(in, isNil, maxCalls, maxInFlight) ==
    /\ IF isNil
       THEN /\ ret' = Returned("MeasureOperation", "", NilRun, ErrNilOperation)
            /\ UNCHANGED calls
       ELSE /\ Len(calls) < maxCalls
            /\ Cardinality(InFlight) < maxInFlight
            /\ calls' = Append(calls,
                   [pc |-> "working", in |-> in, startRun |-> currentTest,
                    err |-> NoError, dur |-> 0, returned |-> NoError])
            /\ ret' = NoReturn
    /\ UNCHANGED <<heap, tests, currentTest, workload>>

\* lines 94-111: the nil check, the locked look at currentTest, the new metric;
\* a call that passes both checks invokes its callback next
MeasureBegin(in, isNil, maxCalls, maxInFlight) ==
    /\ IF isNil
       THEN /\ ret' = Returned("MeasureOperation", "", NilRun, ErrNilOperation)
            /\ UNCHANGED calls
       ELSE IF currentTest = NilRun
       THEN /\ ret' = Returned("MeasureOperation", "", NilRun, ErrNoTest)
            /\ UNCHANGED calls
       ELSE /\ Len(calls) < maxCalls
            /\ Cardinality(InFlight) < maxInFlight
            /\ calls' = Append(calls,
                   [pc |-> "working", in |-> in, startRun |-> currentTest,
                    err |-> NoError, dur |-> 0, returned |-> NoError])
            /\ ret' = NoReturn
    /\ UNCHANGED <<heap, tests, currentTest, workload>>

\* lines 113-120: the callback of call c returns e, d ns after the metric's StartTime
WorkReturns(c, e, d) ==
    /\ calls[c].pc = "working"
    /\ calls' = [calls EXCEPT ![c].pc = "measured", ![c].err = e, ![c].dur = d]
    /\ ret' = NoReturn
    /\ UNCHANGED <<heap, tests, currentTest, workload>>

\* a bug: lines 117-120 left out, the metric never carries the error
MetricWithoutError(c) ==
    [call |-> c, Type |-> calls[c].in.type, ItemCount |-> calls[c].in.itemCount,
     ByteCount |-> calls[c].in.byteCount, IsColdStart |-> calls[c].in.isColdStart,
     Error |-> NoError, Duration |-> calls[c].dur]

\* lines 105-120: the *OperationMetric of call c
Metric(c) ==
    [call |-> c, Type |-> calls[c].in.type, ItemCount |-> calls[c].in.itemCount,
     ByteCount |-> calls[c].in.byteCount, IsColdStart |-> calls[c].in.isColdStart,
     Error |-> calls[c].err, Duration |-> calls[c].dur]

\* a bug: the error of a call whose run is gone is replaced
MeasureResultNoRun(err, cur) == IF cur = NilRun THEN ErrNoTest ELSE err

\* line 129: return err
MeasureResult(err, cur) == err

\* lines 125-127
AppendMetric(h, cur, m) ==
    IF cur # NilRun THEN [h EXCEPT ![cur].Operations = Append(@, m)] ELSE h

\* lines 122-129: the locked append to whatever run is current now, and the return
MeasureEnd(c) ==
    /\ calls[c].pc = "measured"
    /\ heap' = AppendMetric(heap, currentTest, Metric(c))
    /\ calls' = [calls EXCEPT ![c].pc = "returned",
                              ![c].returned = MeasureResult(calls[c].err, currentTest)]
    /\ ret' = Returned("MeasureOperation", "", NilRun,
                       MeasureResult(calls[c].err, currentTest))
    /\ UNCHANGED <<tests, currentTest, workload>>

\* a bug: the metric is set aside and reaches the summary only at EndTest
AddCustomMetricDeferred(name, value) ==
    /\ IF currentTest = NilRun
       THEN /\ ret' = Returned("AddCustomMetric", name, NilRun, ErrNoTest)
            /\ UNCHANGED heap
       ELSE /\ heap' = [heap EXCEPT ![currentTest].custom = Put(@, name, value)]
            /\ ret' = Returned("AddCustomMetric", name, NilRun, NoError)
    /\ UNCHANGED <<tests, currentTest, calls, workload>>

\* ------------------------------------------------------------- AddCustomMetric
AddCustomMetric(name, value) ==
    /\ IF currentTest = NilRun
       THEN /\ ret' = Returned("AddCustomMetric", name, NilRun, ErrNoTest)
            /\ UNCHANGED heap
       ELSE /\ heap' = [heap EXCEPT ![currentTest].Summary = Put(@, name, value),
                                    ![currentTest].custom = Put(@, name, value)]
            /\ ret' = Returned("AddCustomMetric", name, NilRun, NoError)
    /\ UNCHANGED <<tests, currentTest, calls, workload>>

\* ------------------------------------------------------------- EndTest
\* the loop of lines 164-178 over the first n operations
RECURSIVE Totals(_, _)
Totals(ops, n) ==
    IF n = 0
    THEN [totalDuration |-> 0, totalItems |-> 0, totalBytes |-> 0,
          successCount |-> 0, errorCount |-> 0, coldStartCount |-> 0]
    ELSE LET acc == Totals(ops, n - 1)
             op == ops[n]
         IN [totalDuration |-> acc.totalDuration + op.Duration,
             totalItems |-> acc.totalItems + op.ItemCount,
             totalBytes |-> acc.totalBytes + op.ByteCount,
             successCount |-> acc.successCount + (IF op.Error # NoError THEN 0 ELSE 1),
             errorCount |-> acc.errorCount + (IF op.Error # NoError THEN 1 ELSE 0),
             coldStartCount |-> acc.coldStartCount + (IF op.IsColdStart THEN 1 ELSE 0)]

\* a float64 quotient, kept exact as numerator and denominator
Quotient(n, d) == <<n, d>>

DurationsOf(ops) == [i \in 1..Len(ops) |-> ops[i].Duration]

Swap(d, i, j) == [d EXCEPT ![i] = d[j], ![j] = d[i]]

\* lines 205-209, indices from 0 as in the source
RECURSIVE SortInner(_, _, _)
SortInner(d, i, j) ==
    IF j >= Len(d)
    THEN d
    ELSE SortInner(IF d[i + 1] > d[j + 1] THEN Swap(d, i + 1, j + 1) ELSE d, i, j + 1)

\* lines 204-210
RECURSIVE SortOuter(_, _)
SortOuter(d, i) ==
    IF i >= Len(d) THEN d ELSE SortOuter(SortInner(d, i, i + 1), i + 1)

\* a bug: the durations are indexed as recorded, unsorted
SortDurationsSkipped(d) == d

SortDurations(d) == SortOuter(d, 0)

\* a bug: opCount/100*p, the division made first
PercentileDividedFirst(sorted, p) == sorted[((Len(sorted) \div 100) * p) + 1]

\* lines 213-215: durations[opCount*p/100]
Percentile(sorted, p) == sorted[((Len(sorted) * p) \div 100) + 1]

\* a bug: opCount > 10 for opCount >= 10
WithPercentilesAboveTen(summary, ops) ==
    IF Len(ops) > 10
    THEN LET sorted == SortDurations(DurationsOf(ops))
         IN Put(Put(Put(summary, "p50", Percentile(sorted, 50)),
                    "p90", Percentile(sorted, 90)),
                "p99", Percentile(sorted, 99))
    ELSE summary

\* lines 197-216
WithPercentiles(summary, ops) ==
    IF Len(ops) >= 10
    THEN LET sorted == SortDurations(DurationsOf(ops))
         IN Put(Put(Put(summary, "p50", Percentile(sorted, 50)),
                    "p90", Percentile(sorted, 90)),
                "p99", Percentile(sorted, 99))
    ELSE summary

\* lines 184-194
WithStatistics(summary, ops, testDuration) ==
    LET tot == Totals(ops, Len(ops))
        opCount == Len(ops)
        computed ==
            [k \in StatKeys |->
                CASE k = "operationCount" -> opCount
                  [] k = "totalDuration" -> tot.totalDuration
                  [] k = "avgDuration" -> tot.totalDuration \div opCount
                  [] k = "totalItems" -> tot.totalItems
                  [] k = "totalBytes" -> tot.totalBytes
                  [] k = "successCount" -> tot.successCount
                  [] k = "errorCount" -> tot.errorCount
                  [] k = "successRate" -> Quotient(tot.successCount, opCount)
                  [] k = "throughputItems" -> Quotient(tot.totalItems, testDuration)
                  [] k = "throughputBytes" -> Quotient(tot.totalBytes, testDuration)
                  [] k = "coldStartCount" -> tot.coldStartCount]
    IN [k \in DOMAIN summary \cup StatKeys |->
           IF k \in StatKeys THEN computed[k] ELSE summary[k]]

\* lines 158-217: the summary EndTest leaves in the run
Summarize(summary, ops, testDuration) ==
    IF Len(ops) > 0
    THEN WithPercentiles(WithStatistics(summary, ops, testDuration), ops)
    ELSE summary

\* a bug: a run in the table is ended whether or not it is the current one
NotCurrentExistsOnly(test, cur) == test = NilRun

\* a bug: while no run is current, a run still in the table is ended again
NotCurrentWhenAnother(test, cur) == test = NilRun \/ (cur # NilRun /\ test # cur)

\* line 151: !exists || test != c.currentTest
NotCurrent(test, cur) == test = NilRun \/ test # cur

\* a bug: lines 220-222 left out, the ended run stays the current one
EndTestKeepsCurrent(testName, testDuration) ==
    LET test == tests[testName]
    IN IF NotCurrent(test, currentTest)
       THEN /\ ret' = Returned("EndTest", testName, NilRun, NoError)
            /\ UNCHANGED <<heap, tests, currentTest, calls, workload>>
       ELSE /\ heap' = [heap EXCEPT ![test] =
                   [@ EXCEPT !.ended = TRUE, !.Duration = testDuration,
                             !.Summary = Summarize(heap[test].Summary,
                                                   heap[test].Operations,
                                                   testDuration)]]
            /\ ret' = Returned("EndTest", testName, test, NoError)
            /\ UNCHANGED <<tests, currentTest, calls, workload>>

EndTest(testName, testDuration) ==
    LET test == tests[testName]
    IN IF NotCurrent(test, currentTest)
       THEN /\ ret' = Returned("EndTest", testName, NilRun, NoError)
            /\ UNCHANGED <<heap, tests, currentTest, calls, workload>>
       ELSE /\ heap' = [heap EXCEPT ![test] =
                   [@ EXCEPT !.ended = TRUE, !.Duration = testDuration,
                             !.Summary = Summarize(heap[test].Summary,
                                                   heap[test].Operations,
                                                   testDuration)]]
            /\ currentTest' = NilRun
            /\ ret' = Returned("EndTest", testName, test, NoError)
            /\ UNCHANGED <<tests, calls, workload>>

\* a bug: line 239 left out, the table is emptied and the current run stays
ResetCollectorKeepsCurrent ==
    /\ tests' = [n \in Names |-> NilRun]
    /\ ret' = NoReturn
    /\ UNCHANGED <<heap, currentTest, calls, workload>>

\* ------------------------------------------------------------- ResetCollector
ResetCollector ==
    /\ currentTest' = NilRun
    /\ tests' = [n \in Names |-> NilRun]
    /\ ret' = NoReturn
    /\ UNCHANGED <<heap, calls, workload>>

\* ------------------------------------------------------------- the collector
\* under goroutines that call it in any order; AddCustomMetric, which touches
\* only the current run's summary, is exercised under SpecStats
Next ==
    \/ \E n \in Names : StartTest(n, MaxRuns) /\ UNCHANGED callers
    \/ \E isNil \in BOOLEAN :
          MeasureBegin(ScriptInput(workload, Len(calls) + 1), isNil, MaxCalls, MaxInFlight) /\ UNCHANGED callers
    \/ \E c \in 1..Len(calls) :
          WorkReturns(c, ScriptError(workload, c), ScriptDuration(workload, c)) /\ UNCHANGED callers
    \/ \E c \in 1..Len(calls) : MeasureEnd(c) /\ UNCHANGED callers
    \/ \E n \in Names, d \in TestDurations : EndTest(n, d) /\ UNCHANGED callers
    \/ ResetCollector /\ UNCHANGED callers

Spec == Init /\ [][Next]_vars

\* one goroutine measuring a scripted workload within run "A"
NextStats ==
    \/ heap = <<>> /\ StartTest("A", 1) /\ UNCHANGED callers
    \/ MeasureBegin(ScriptInput(workload, Len(calls) + 1), FALSE, MaxStatCalls, 1) /\ UNCHANGED callers
    \/ \E c \in 1..Len(calls) :
          WorkReturns(c, ScriptError(workload, c), ScriptDuration(workload, c)) /\ UNCHANGED callers
    \/ \E c \in 1..Len(calls) : MeasureEnd(c) /\ UNCHANGED callers
    \/ \E k \in CustomKeys, v \in CustomValues : AddCustomMetric(k, v) /\ UNCHANGED callers
    \/ \E d \in StatTestDurations : EndTest("A", d) /\ UNCHANGED callers

SpecStats == InitStats /\ [][NextStats]_vars

\* ------------------------------------------------------------- GetTestResult
GetTestResult(testName) ==
    /\ ret' = Returned("GetTestResult", testName, tests[testName], NoError)
    /\ UNCHANGED <<heap, tests, currentTest, calls, workload>>

\* the whole interface of the collector under goroutines that call it in any
\* order, with one measured call in flight at a time
NextApi ==
    \/ \E n \in Names : StartTest(n, MaxApiRuns) /\ UNCHANGED callers
    \/ MeasureBegin(ScriptInput(workload, Len(calls) + 1), FALSE, MaxApiCalls, 1) /\ UNCHANGED callers
    \/ \E c \in 1..Len(calls) :
          WorkReturns(c, ScriptError(workload, c), ScriptDuration(workload, c)) /\ UNCHANGED callers
    \/ \E c \in 1..Len(calls) : MeasureEnd(c) /\ UNCHANGED callers
    \/ \E k \in ApiKeys, v \in CustomValues : AddCustomMetric(k, v) /\ UNCHANGED callers
    \/ \E n \in Names, d \in TestDurations : EndTest(n, d) /\ UNCHANGED callers
    \/ \E n \in Names : GetTestResult(n) /\ UNCHANGED callers
    \/ ResetCollector /\ UNCHANGED callers

SpecApi == Init /\ [][NextApi]_vars

\* ------------------------------------------------------------- the mutex
\* MeasureOperation step by step, with c.mu explicit: each goroutine makes one
\* call, whose callback may itself call the collector once
Goroutines == 1..MaxLockGoroutines

\* NewCollector, and goroutines about to call MeasureOperation
InitLock ==
    /\ InitCollector
    /\ workload \in ConcurrentWorkloads
    /\ mu = Unlocked
    /\ goroutines = [g \in Goroutines |-> [pc |-> "start", stack |-> <<>>]]
    /\ handler = NoHandler
    /\ exec = NoExecute

\* the call whose callback goroutine g is in
TopCall(g) == goroutines[g].stack[Len(goroutines[g].stack)]

\* sync.Mutex.Lock by goroutine g: it waits while anyone, g included, holds mu
Lock(g) ==
    /\ mu = Unlocked
    /\ mu' = g

\* line 98: c.mu.Lock(); the goroutines, which are alike, make their calls in
\* the order of their numbers
MeasureLock(g) ==
    /\ goroutines[g].pc = "start"
    /\ \A h \in 1..(g - 1) : goroutines[h].pc # "start" \/ goroutines[h].stack # <<>>
    /\ Lock(g)
    /\ goroutines' = [goroutines EXCEPT ![g].pc = "check"]
    /\ UNCHANGED <<heap, tests, currentTest, calls, workload, ret>>

\* a bug: the lock is released by a defer, when MeasureOperation returns
CheckUnlockDeferred(g) == g

\* lines 100, 103: c.mu.Unlock() once currentTest has been looked at
CheckUnlock(g) == Unlocked

\* lines 99-111: the look at currentTest under the lock; a call made from within
\* a callback that is rejected returns its error into that callback
MeasureCheck(g) ==
    /\ goroutines[g].pc = "check"
    /\ mu = g
    /\ MeasureBegin(ScriptInput(workload, Len(calls) + 1), FALSE,
                    2 * MaxLockGoroutines, 2 * MaxLockGoroutines)
    /\ mu' = CheckUnlock(g)
    /\ goroutines' =
          IF currentTest = NilRun
          THEN [goroutines EXCEPT ![g].pc =
                    IF goroutines[g].stack = <<>> THEN "done" ELSE "working"]
          ELSE [goroutines EXCEPT ![g].pc = "callback",
                                  ![g].stack = Append(@, Len(calls) + 1)]

\* line 113: a callback that calls nothing of the collector (any more)
CallbackPlain(g) ==
    /\ goroutines[g].pc = "callback"
    /\ goroutines' = [goroutines EXCEPT ![g].pc = "working"]
    /\ UNCHANGED <<heap, tests, currentTest, calls, workload, ret, mu>>

\* line 113: a callback that calls AddCustomMetric or GetTestResult, whose first
\* statement is c.mu.Lock() (lines 134, 229)
CallbackLock(g) ==
    /\ goroutines[g].pc = "callback"
    /\ Lock(g)
    /\ goroutines' = [goroutines EXCEPT ![g].pc = "nested"]
    /\ UNCHANGED <<heap, tests, currentTest, calls, workload, ret>>

\* lines 135-143: the rest of AddCustomMetric, and its deferred Unlock
CallbackAddCustomMetric(g, name, value) ==
    /\ goroutines[g].pc = "nested"
    /\ mu = g
    /\ AddCustomMetric(name, value)
    /\ mu' = Unlocked
    /\ goroutines' = [goroutines EXCEPT ![g].pc = "working"]

\* lines 230-233: the rest of GetTestResult, and its deferred Unlock
CallbackGetTestResult(g, name) ==
    /\ goroutines[g].pc = "nested"
    /\ mu = g
    /\ GetTestResult(name)
    /\ mu' = Unlocked
    /\ goroutines' = [goroutines EXCEPT ![g].pc = "working"]

\* line 113: a callback that calls MeasureOperation, with a callback that calls
\* nothing of the collector
CallbackMeasureOperation(g) ==
    /\ goroutines[g].pc = "callback"
    /\ Len(goroutines[g].stack) = 1
    /\ goroutines' = [goroutines EXCEPT ![g].pc = "start"]
    /\ UNCHANGED <<heap, tests, currentTest, calls, workload, ret, mu>>

\* lines 113-120: the callback returns
CallbackReturns(g) ==
    /\ goroutines[g].pc = "working"
    /\ WorkReturns(TopCall(g), ScriptError(workload, TopCall(g)),
                   ScriptDuration(workload, TopCall(g)))
    /\ goroutines' = [goroutines EXCEPT ![g].pc = "measured"]
    /\ UNCHANGED mu

\* line 122: c.mu.Lock()
AppendLock(g) ==
    /\ goroutines[g].pc = "measured"
    /\ Lock(g)
    /\ goroutines' = [goroutines EXCEPT ![g].pc = "append"]
    /\ UNCHANGED <<heap, tests, currentTest, calls, workload, ret>>

\* lines 123-129: the append, the deferred Unlock and the return, into the
\* callback of the enclosing call if there is one
AppendUnlock(g) ==
    /\ goroutines[g].pc = "append"
    /\ mu = g
    /\ MeasureEnd(TopCall(g))
    /\ mu' = Unlocked
    /\ goroutines' =
          IF Len(goroutines[g].stack) = 1
          THEN [goroutines EXCEPT ![g].pc = "done", ![g].stack = <<>>]
          ELSE [goroutines EXCEPT ![g].pc = "working",
                                  ![g].stack = SubSeq(@, 1, Len(@) - 1)]

\* lines 68-84, whole: StartTest holds the lock from its first statement to its
\* return
LockedStartTest ==
    /\ mu = Unlocked
    /\ heap = <<>>
    /\ StartTest("A", 1)
    /\ UNCHANGED callers

NextLock ==
    \/ LockedStartTest
    \/ \E g \in Goroutines : MeasureLock(g) /\ UNCHANGED <<handler, exec>>
    \/ \E g \in Goroutines : MeasureCheck(g) /\ UNCHANGED <<handler, exec>>
    \/ \E g \in Goroutines : CallbackPlain(g) /\ UNCHANGED <<handler, exec>>
    \/ \E g \in Goroutines : CallbackLock(g) /\ UNCHANGED <<handler, exec>>
    \/ \E g \in Goroutines, v \in CustomValues : CallbackAddCustomMetric(g, "note", v) /\ UNCHANGED <<handler, exec>>
    \/ \E g \in Goroutines : CallbackGetTestResult(g, "A") /\ UNCHANGED <<handler, exec>>
    \/ \E g \in Goroutines : CallbackMeasureOperation(g) /\ UNCHANGED <<handler, exec>>
    \/ \E g \in Goroutines : CallbackReturns(g) /\ UNCHANGED <<handler, exec>>
    \/ \E g \in Goroutines : AppendLock(g) /\ UNCHANGED <<handler, exec>>
    \/ \E g \in Goroutines : AppendUnlock(g) /\ UNCHANGED <<handler, exec>>

SpecLock == InitLock /\ [][NextLock]_vars

\* ------------------------------------------------------------- the strategies
\* ReadOperation.Execute and WriteOperation.Execute (package operations): the
\* tasks of an execution are its items, or its batches for a Write in batched
\* mode (isParallel), numbered from 1 in input order; fails holds the tasks
\* whose storage call returns an error
Executions ==
    [op : {"Read", "Write"}, isParallel : BOOLEAN, count : 0..MaxItems,
     batchSize : 1..MaxBatchSize, concurrency : 0..MaxConcurrency,
     isColdStart : {FALSE}, fails : SUBSET (1..MaxItems)]

\* line 123: fmt.Sprintf("%s-tx-%d", accountID, i)
DeterministicID(accountID, i) == <<accountID, "tx", i>>

\* line 101: the default of accountId
DefaultAccount == "test-account"

\* identifiers a caller supplies, not in the order of their numbers
SuppliedIDs == [i \in 1..MaxItems |-> DeterministicID("other", MaxItems - i)]

\* params["transactionIDs"]: no []string, or the first n supplied identifiers
TransactionIDParams ==
    {[given |-> FALSE, list |-> <<>>]}
        \cup {[given |-> TRUE, list |-> SubSeq(SuppliedIDs, 1, n)] : n \in 0..MaxItems}

\* the parameters of the identifier source of a Read: itemCount, useRandomIDs
\* and transactionIDs; a list is supplied with an itemCount that is not its
\* length as a rule
IDParams ==
    {p \in [itemCount : 0..MaxItems, useRandomIDs : BOOLEAN,
            transactionIDs : TransactionIDParams] :
        p.transactionIDs.given => p.itemCount = MaxItems - Len(p.transactionIDs.list)}

\* lines 100, 111-113: count is itemCount, or the length of the list supplied
CountOf(p) ==
    IF p.transactionIDs.given THEN Len(p.transactionIDs.list) ELSE p.itemCount

\* lines 110-125: the identifiers to read; none are loaded for random ids
LoadIDs(p) ==
    IF p.transactionIDs.given THEN p.transactionIDs.list
    ELSE IF p.useRandomIDs THEN <<>>
    ELSE [i \in 1..p.itemCount |-> DeterministicID(DefaultAccount, i - 1)]

\* a bug: useRandomIDs is looked at before the list supplied
RandomSourceFirst(p) == p.useRandomIDs

\* lines 114-116: random ids are asked for and no list is supplied
RandomSource(p) == ~ p.transactionIDs.given /\ p.useRandomIDs

ErrRandomIDs == "reading random IDs requires pre-generating transactions first"

\* the parameters of a Write, which has no identifier source
WriteParams(count) ==
    [itemCount |-> count, useRandomIDs |-> FALSE,
     transactionIDs |-> [given |-> FALSE, list |-> <<>>]]

Batched(e) == e.op = "Write" /\ e.isParallel

\* a bug: the division rounds down, the last, shorter batch is never written
NumBatchesFloor(count, batchSize) == count \div batchSize

\* line 262: numBatches := (count + batchSize - 1) / batchSize
NumBatches(count, batchSize) == (count + batchSize - 1) \div batchSize

NumTasks(e) == IF Batched(e) THEN NumBatches(e.count, e.batchSize) ELSE e.count

\* lines 275-281: the items of batch t, transactions[startIdx:endIdx] counted from 1
BatchItems(e, t) ==
    LET startIdx == (t - 1) * e.batchSize
        endIdx == IF startIdx + e.batchSize > e.count
                  THEN e.count ELSE startIdx + e.batchSize
    IN (startIdx + 1)..endIdx

\* the items task t stands for
TaskItems(e, t) == IF Batched(e) THEN BatchItems(e, t) ELSE {t}

\* what the strategy passes to MeasureOperation for task t
TaskInput(e, t) ==
    LET n == Cardinality(TaskItems(e, t))
    IN [type |-> IF e.op = "Read" THEN "READ"
                 ELSE IF e.isParallel THEN "BATCH" ELSE "WRITE",
        itemCount |-> n, byteCount |-> n * ReadInput.byteCount,
        isColdStart |-> e.isColdStart]

\* the storage call of task t: db.ReadTransaction, db.WriteTransaction or
\* db.BatchWriteTransactions
StorageError(e, t) == IF t \in e.fails THEN "e1" ELSE NoError

ErrAllFailed == "all operations failed"

\* the executions with their parameters: count is what lines 100-113 compute
ExecutionsWithParams ==
    {x \in [e : Executions, p : IDParams] :
        /\ x.e.fails \subseteq 1..NumTasks(x.e)
        /\ x.e.count = CountOf(x.p)
        /\ x.e.op = "Write" => x.p = WriteParams(x.e.count)
        /\ RandomSource(x.p) => x.e.fails = {}}

\* an execution about to start: no worker spawned, an empty result
NewExecute(e, p) ==
    [pc |-> "created", op |-> e.op, isParallel |-> e.isParallel, count |-> e.count,
     batchSize |-> e.batchSize, concurrency |-> e.concurrency,
     isColdStart |-> e.isColdStart, fails |-> e.fails,
     params |-> p, next |-> 1, semaphore |-> 0,
     workers |-> [t \in 1..NumTasks(e) |-> [pc |-> "none", call |-> 0, err |-> NoError]],
     errorChan |-> <<>>, ItemsProcessed |-> 0, Errors |-> <<>>, transactionIDs |-> <<>>,
     err |-> NoError]

InitExecute ==
    /\ InitCollector
    /\ workload \in {wl \in ScriptedWorkloads : wl.a = 0 /\ wl.b = 0 /\ wl.f = 0 /\ wl.w = 0}
    /\ mu = Unlocked
    /\ goroutines = <<>>
    /\ handler = NoHandler
    /\ exec \in {NewExecute(x.e, x.p) : x \in ExecutionsWithParams}

\* lines 93-133, 226-257: the parameters are read, the identifiers or the
\* transactions generated, and result.ItemsProcessed = count (lines 132, 256);
\* a Read asked for random ids returns its error from line 116, with the result
\* as first made; result.Data["transactionIDs"] is followed for a Read only
ExecuteBegin ==
    /\ exec.pc = "created"
    /\ exec' = IF exec.op = "Read" /\ RandomSource(exec.params)
               THEN [exec EXCEPT !.pc = "returned", !.err = ErrRandomIDs,
                                 !.workers = <<>>]
               ELSE [exec EXCEPT !.pc = "running", !.ItemsProcessed = exec.count,
                                 !.transactionIDs =
                                     IF exec.op = "Read" THEN LoadIDs(exec.params)
                                     ELSE <<>>]
    /\ UNCHANGED <<heap, tests, currentTest, calls, workload, ret, mu, goroutines, handler>>

\* a bug: no semaphore, one goroutine per task at once
DispatchUnbounded(t) ==
    /\ exec.pc = "running"
    /\ t = exec.next
    /\ t <= Len(exec.workers)
    /\ IF exec.isParallel
       THEN TRUE
       ELSE IF t = 1 THEN TRUE ELSE exec.workers[t - 1].pc = "exited"
    /\ exec' = [exec EXCEPT !.next = t + 1,
                            !.semaphore = IF exec.isParallel THEN @ + 1 ELSE @,
                            !.workers[t].pc = "spawned"]
    /\ UNCHANGED <<heap, tests, currentTest, calls, workload, ret, mu, goroutines, handler>>

\* a bug: the sequential loop goes to its next round before the round before is over
DispatchAhead(t) ==
    /\ exec.pc = "running"
    /\ t = exec.next
    /\ t <= Len(exec.workers)
    /\ IF exec.isParallel THEN exec.semaphore < exec.concurrency ELSE TRUE
    /\ exec' = [exec EXCEPT !.next = t + 1,
                            !.semaphore = IF exec.isParallel THEN @ + 1 ELSE @,
                            !.workers[t].pc = "spawned"]
    /\ UNCHANGED <<heap, tests, currentTest, calls, workload, ret, mu, goroutines, handler>>

\* lines 142-146, 267-271: wg.Add(1), semaphore <- struct{}{} (which waits while
\* the channel holds concurrency tokens) and the go statement; lines 179, 312:
\* the next round of the sequential loop, once the round before is over
Dispatch(t) ==
    /\ exec.pc = "running"
    /\ t = exec.next
    /\ t <= Len(exec.workers)
    /\ IF exec.isParallel
       THEN exec.semaphore < exec.concurrency
       ELSE IF t = 1 THEN TRUE ELSE exec.workers[t - 1].pc = "exited"
    /\ exec' = [exec EXCEPT !.next = t + 1,
                            !.semaphore = IF exec.isParallel THEN @ + 1 ELSE @,
                            !.workers[t].pc = "spawned"]
    /\ UNCHANGED <<heap, tests, currentTest, calls, workload, ret, mu, goroutines, handler>>

\* lines 163-165, 193-195, 296-298, 325-327: the error of a task goes to
\* errorChan in parallel and batched mode, to result.Errors otherwise
WithError(x, t, err) ==
    IF err = NoError THEN x
    ELSE IF x.isParallel THEN [x EXCEPT !.errorChan = Append(@, t)]
    ELSE [x EXCEPT !.Errors = Append(@, t)]

\* lines 147-148, 272-273: the deferred <-semaphore and wg.Done() of a worker
WorkerExit(x, t, err) ==
    [x EXCEPT !.workers[t].pc = "exited", !.workers[t].err = err,
              !.semaphore = IF x.isParallel THEN @ - 1 ELSE @]

\* lines 152-156 (182-186, 285-289, 314-318): MeasureOperation up to the
\* callback; a call the collector rejects returns its error at once
WorkerMeasure(t) ==
    /\ exec.pc = "running"
    /\ exec.workers[t].pc = "spawned"
    /\ MeasureBegin(TaskInput(exec, t), FALSE, MaxItems, MaxItems)
    /\ exec' = IF currentTest = NilRun
               THEN WorkerExit(WithError(exec, t, ErrNoTest), t, ErrNoTest)
               ELSE [exec EXCEPT !.workers[t].pc = "storage",
                                 !.workers[t].call = Len(calls) + 1]
    /\ UNCHANGED <<mu, goroutines, handler>>

\* lines 157-160 (187-190, 290-293, 319-322): the storage call within the
\* callback returns
WorkerStorage(t) ==
    /\ exec.pc = "running"
    /\ exec.workers[t].pc = "storage"
    /\ WorkReturns(exec.workers[t].call, StorageError(exec, t),
                   ScriptDuration(workload, exec.workers[t].call))
    /\ exec' = [exec EXCEPT !.workers[t].pc = "measured"]
    /\ UNCHANGED <<mu, goroutines, handler>>

\* lines 161-166 (191-195, 294-299, 323-327): MeasureOperation returns, its
\* error is kept, the worker exits
WorkerReturn(t) ==
    /\ exec.pc = "running"
    /\ exec.workers[t].pc = "measured"
    /\ MeasureEnd(exec.workers[t].call)
    /\ LET err == MeasureResult(calls[exec.workers[t].call].err, currentTest)
       IN exec' = WorkerExit(WithError(exec, t, err), t, err)
    /\ UNCHANGED <<mu, goroutines, handler>>

\* a bug: wg.Wait() left out, the errors are collected while workers still run
WaitAllNoWait ==
    /\ exec.pc = "running"
    /\ exec.next > Len(exec.workers)
    /\ exec.isParallel
       \/ \A t \in 1..Len(exec.workers) : exec.workers[t].pc = "exited"
    /\ exec' = [exec EXCEPT !.pc = "waited",
                            !.Errors = IF exec.isParallel THEN exec.errorChan ELSE @]
    /\ UNCHANGED <<heap, tests, currentTest, calls, workload, ret, mu, goroutines, handler>>

\* lines 170-176, 303-309: wg.Wait(), close(errorChan) and the errors collected
\* from it; in sequential mode the loop is over
WaitAll ==
    /\ exec.pc = "running"
    /\ exec.next > Len(exec.workers)
    /\ \A t \in 1..Len(exec.workers) : exec.workers[t].pc = "exited"
    /\ exec' = [exec EXCEPT !.pc = "waited",
                            !.Errors = IF exec.isParallel THEN exec.errorChan ELSE @]
    /\ UNCHANGED <<heap, tests, currentTest, calls, workload, ret, mu, goroutines, handler>>

\* lines 203, 335: len(result.Errors) == count
AllFailed(errors, count) == Len(errors) = count

\* lines 199-207, 331-339: the all-failed check and the return
ExecuteReturn ==
    /\ exec.pc = "waited"
    /\ exec' = [exec EXCEPT !.pc = "returned",
                            !.err = IF AllFailed(exec.Errors, exec.count)
                                    THEN ErrAllFailed ELSE NoError]
    /\ UNCHANGED <<heap, tests, currentTest, calls, workload, ret, mu, goroutines, handler>>

\* the caller of the strategy starts a run before Execute, or does not, and
\* ends it afterwards
NextExecute ==
    \/ exec.pc = "created" /\ heap = <<>> /\ StartTest("A", 1)
          /\ UNCHANGED callers
    \/ ExecuteBegin
    \/ \E t \in 1..MaxItems : Dispatch(t)
    \/ \E t \in DOMAIN exec.workers : WorkerMeasure(t)
    \/ \E t \in DOMAIN exec.workers : WorkerStorage(t)
    \/ \E t \in DOMAIN exec.workers : WorkerReturn(t)
    \/ WaitAll
    \/ ExecuteReturn
    \/ exec.pc = "returned" /\ (\E d \in TestDurations : EndTest("A", d))
          /\ UNCHANGED callers

SpecExecute == InitExecute /\ [][NextExecute]_vars

\* ------------------------------------------------------------- the type strings
\* a string is the sequence of its characters
Upper == <<"A", "B", "C", "D", "E", "F", "G", "H", "I", "J", "K", "L", "M",
           "N", "O", "P", "Q", "R", "S", "T", "U", "V", "W", "X", "Y", "Z">>

Lower == <<"a", "b", "c", "d", "e", "f", "g", "h", "i", "j", "k", "l", "m",
           "n", "o", "p", "q", "r", "s", "t", "u", "v", "w", "x", "y", "z">>

ToLowerChar(c) ==
    IF \E i \in DOMAIN Upper : Upper[i] = c
    THEN Lower[CHOOSE i \in DOMAIN Upper : Upper[i] = c]
    ELSE c

\* strings.ToLower
ToLower(s) == [i \in 1..Len(s) |-> ToLowerChar(s[i])]

\* the case labels of createOperationStrategy
TypeReadSequential ==
    <<"r", "e", "a", "d", "-", "s", "e", "q", "u", "e", "n", "t", "i", "a", "l">>

TypeReadParallel == <<"r", "e", "a", "d", "-", "p", "a", "r", "a", "l", "l", "e", "l">>

TypeWrite == <<"w", "r", "i", "t", "e">>

TypeWriteBatch == <<"w", "r", "i", "t", "e", "-", "b", "a", "t", "c", "h">>

TypeQuery == <<"q", "u", "e", "r", "y">>

\* the names NewOperationFactory registers beside "write" and "query"
TypeRead == <<"r", "e", "a", "d">>

TypeImmuDBWrite == <<"i", "m", "m", "u", "d", "b", "_", "w", "r", "i", "t", "e">>

TypeImmuDBRead == <<"i", "m", "m", "u", "d", "b", "_", "r", "e", "a", "d">>

TypeImmuDBQuery == <<"i", "m", "m", "u", "d", "b", "_", "q", "u", "e", "r", "y">>

\* the case labels of createDatabaseAdapter
TypeDynamoDB == <<"d", "y", "n", "a", "m", "o", "d", "b">>

TypeImmuDB == <<"i", "m", "m", "u", "d", "b">>

TypeTimestream == <<"t", "i", "m", "e", "s", "t", "r", "e", "a", "m">>

\* ------------------------------------------------------------- parameters
\* a value of a map[string]interface{} with its dynamic type
Typed(T, value) == [type |-> T, value |-> value]

\* a bug: the type assertion left out, whatever is stored under the key comes back
getParamUnasserted(params, key, T, defaultValue) ==
    IF key \in DOMAIN params THEN params[key].value ELSE defaultValue

\* getParam[T]: the value under the key when it is there and is a T (val.(T)),
\* the default otherwise; T is the type of the default at the call
getParam(params, key, T, defaultValue) ==
    IF key \in DOMAIN params
    THEN IF params[key].type = T THEN params[key].value ELSE defaultValue
    ELSE defaultValue

\* strings.HasPrefix(k, "db.") on the keys requests use
DbKeys == {"db.endpoint"}

\* lines 483-495: the defaults, overridden by the request's parameters but for
\* the keys of the database adapter
MergeParams(params) ==
    LET defaultParams == [k \in {"concurrency", "itemCount", "dataSize", "consistentRead"} |->
                             CASE k = "concurrency" -> Typed("int", 10)
                               [] k = "itemCount" -> Typed("int", 100)
                               [] k = "dataSize" -> Typed("int", 1024)
                               [] k = "consistentRead" -> Typed("bool", TRUE)]
        given == DOMAIN params \ DbKeys
    IN [k \in DOMAIN defaultParams \cup given |->
           IF k \in given THEN params[k] ELSE defaultParams[k]]

\* ------------------------------------------------------------- the handler's factory
\* part_005 lines 83-90, 216-223, 348-355: the constructors keep the parameters
NewReadOperation(params, isParallel) ==
    [kind |-> "Read", isParallel |-> isParallel, params |-> params]

NewWriteOperation(params, isBatch) ==
    [kind |-> "Write", isParallel |-> isBatch, params |-> params]

NewQueryOperation(params) ==
    [kind |-> "Query", isParallel |-> FALSE, params |-> params]

\* a nil Operation
NilOperation == [kind |-> "nil"]

ErrUnsupportedOperation == "unsupported operation type"

\* lines 481-512
createOperationStrategy(opType, params) ==
    LET defaultParams == MergeParams(params)
        t == ToLower(opType)
    IN IF t = TypeReadSequential
       THEN [op |-> NewReadOperation(defaultParams, FALSE), err |-> NoError]
       ELSE IF t = TypeReadParallel
       THEN [op |-> NewReadOperation(defaultParams, TRUE), err |-> NoError]
       ELSE IF t = TypeWrite
       THEN [op |-> NewWriteOperation(defaultParams, FALSE), err |-> NoError]
       ELSE IF t = TypeWriteBatch
       THEN [op |-> NewWriteOperation(defaultParams, TRUE), err |-> NoError]
       ELSE IF t = TypeQuery
       THEN [op |-> NewQueryOperation(defaultParams), err |-> NoError]
       ELSE [op |-> NilOperation, err |-> ErrUnsupportedOperation]

\* ------------------------------------------------------------- Query
\* lines 404-425: what QueryOperation.Execute passes to MeasureOperation
QueryInput(params) ==
    LET limit == getParam(params, "limit", "int64", 100)
    IN [type |-> "QUERY", itemCount |-> limit,
        byteCount |-> limit * getParam(params, "dataSize", "int", 1024),
        isColdStart |-> getParam(params, "isColdStart", "bool", FALSE)]

\* line 439: fmt.Errorf("failed to execute query: %w", err)
QueryFailed(err) == <<"failed to execute query", err>>

\* a query about to call MeasureOperation; the backend will return found
\* transactions, or an error
NewQuery(params, found, fails) ==
    [pc |-> "query", op |-> "Query", isParallel |-> FALSE, params |-> params,
     found |-> found, fails |-> fails, call |-> 0, transactions |-> <<>>,
     workers |-> <<>>, ItemsProcessed |-> 0, Errors |-> <<>>, transactionIDs |-> <<>>,
     err |-> NoError]

\* a bug: the error goes to the list only and Execute returns the result as if
\* the query had succeeded
QueryResultSwallowed(x, err) ==
    IF err # NoError
    THEN [x EXCEPT !.pc = "returned", !.Errors = Append(@, QueryFailed(err))]
    ELSE [x EXCEPT !.pc = "returned", !.ItemsProcessed = Len(x.transactions),
                   !.transactionIDs = x.transactions]

\* lines 438-454: the result of Execute once MeasureOperation has returned err
QueryResult(x, err) ==
    IF err # NoError
    THEN [x EXCEPT !.pc = "returned", !.Errors = Append(@, QueryFailed(err)),
                   !.err = err]
    ELSE [x EXCEPT !.pc = "returned", !.ItemsProcessed = Len(x.transactions),
                   !.transactionIDs = x.transactions]

\* lines 421-426: MeasureOperation up to the callback
QueryMeasure ==
    /\ exec.pc = "query"
    /\ MeasureBegin(QueryInput(exec.params), FALSE, MaxItems, MaxItems)
    /\ exec' = IF currentTest = NilRun
               THEN QueryResult(exec, ErrNoTest)
               ELSE [exec EXCEPT !.pc = "querying", !.call = Len(calls) + 1]
    /\ UNCHANGED <<mu, goroutines, handler>>

\* lines 427-434: db.QueryTransactionsByTimeRange returns
QueryStorage ==
    /\ exec.pc = "querying"
    /\ WorkReturns(exec.call, IF 1 \in exec.fails THEN "e1" ELSE NoError,
                   ScriptDuration(workload, exec.call))
    /\ exec' = [exec EXCEPT !.pc = "queried",
                            !.transactions =
                                IF 1 \in exec.fails THEN <<>>
                                ELSE [i \in 1..exec.found |->
                                         DeterministicID(DefaultAccount, i - 1)]]
    /\ UNCHANGED <<mu, goroutines, handler>>

\* lines 436-455: MeasureOperation returns and Execute with it
QueryReturn ==
    /\ exec.pc = "queried"
    /\ MeasureEnd(exec.call)
    /\ exec' = QueryResult(exec, MeasureResult(calls[exec.call].err, currentTest))
    /\ UNCHANGED <<mu, goroutines, handler>>

\* ------------------------------------------------------------- handleRequest
\* the name handleRequest formats for the run of its request (line 527)
TestName == "A"

\* line 464
ErrUnsupportedDatabase == "unsupported database type"

\* lines 427-478: the adapter for dbType and the calls made on it; db.create and
\* db.initialize tell whether the backend lets CreateDatabase and Initialize succeed
createDatabaseAdapter(dbType, db) ==
    IF ToLower(dbType) \notin {TypeDynamoDB, TypeImmuDB, TypeTimestream}
    THEN [err |-> ErrUnsupportedDatabase, calls |-> <<>>]
    ELSE IF ~ db.create
    THEN [err |-> "error creating database adapter", calls |-> <<>>]
    ELSE IF ~ db.initialize
    THEN [err |-> "error initializing database", calls |-> <<"Initialize">>]
    ELSE [err |-> NoError, calls |-> <<"Initialize">>]

\* what Execute of the strategy reads from its parameters (part_005 lines
\* 101-108, 233-237) and the backend's answers to come
Execution(strategy, db) ==
    IF strategy.kind = "Query"
    THEN NewQuery(strategy.params, db.found, db.fails)
    ELSE LET p == IF strategy.kind = "Read"
                  THEN [itemCount |-> getParam(strategy.params, "itemCount", "int", 100),
                        useRandomIDs |-> getParam(strategy.params, "useRandomIDs", "bool", FALSE),
                        transactionIDs |-> [given |-> FALSE, list |-> <<>>]]
                  ELSE WriteParams(getParam(strategy.params, "itemCount", "int", 100))
         IN NewExecute([op |-> strategy.kind, isParallel |-> strategy.isParallel,
                        count |-> CountOf(p),
                        batchSize |-> getParam(strategy.params, "batchSize", "int", 25),
                        concurrency |-> getParam(strategy.params, "concurrency", "int", 10),
                        isColdStart |-> getParam(strategy.params, "isColdStart", "bool", FALSE),
                        fails |-> db.fails], p)

\* lines 520-524
NewResponse(request) ==
    [OperationType |-> request.OperationType, DatabaseType |-> request.DatabaseType,
     Success |-> FALSE, ErrorMessage |-> "", ItemsProcessed |-> 0, Metrics |-> EmptyMap]

\* lines 516-534: the response is initialised and the run started
HandlerStartTest ==
    /\ handler.pc = "received"
    /\ StartTest(TestName, 1)
    /\ handler' = [handler EXCEPT !.pc = "started",
                                  !.response = NewResponse(handler.request)]
    /\ UNCHANGED <<mu, goroutines, exec>>

\* lines 537-544
HandlerCreateAdapter ==
    /\ handler.pc = "started"
    /\ LET a == createDatabaseAdapter(handler.request.DatabaseType, handler.db)
       IN handler' = IF a.err # NoError
                     THEN [handler EXCEPT !.pc = "responded", !.dbCalls = a.calls,
                               !.response.ErrorMessage = "Failed to create database adapter"]
                     ELSE [handler EXCEPT !.pc = "adapter", !.dbCalls = a.calls]
    /\ UNCHANGED <<heap, tests, currentTest, calls, workload, ret, mu, goroutines, exec>>

\* lines 547-556: the cold start flag joins the parameters, the strategy is
\* made; the deferred db.Close() runs when the handler returns
HandlerCreateStrategy ==
    /\ handler.pc = "adapter"
    /\ LET params == Put(handler.request.Parameters, "isColdStart",
                         Typed("bool", handler.isColdStart))
           s == createOperationStrategy(handler.request.OperationType, params)
       IN IF s.err # NoError
          THEN /\ handler' = [handler EXCEPT !.pc = "responded",
                                 !.request.Parameters = params,
                                 !.dbCalls = Append(@, "Close"),
                                 !.response.ErrorMessage = "Failed to create operation strategy"]
               /\ UNCHANGED exec
          ELSE /\ handler' = [handler EXCEPT !.pc = "executing",
                                             !.request.Parameters = params]
               /\ exec' = Execution(s.op, handler.db)
    /\ UNCHANGED <<heap, tests, currentTest, calls, workload, ret, mu, goroutines>>

\* lines 559-565: Execute returned an error
HandlerExecuteFailed ==
    /\ handler.pc = "executing"
    /\ exec.pc = "returned"
    /\ exec.err # NoError
    /\ handler' = [handler EXCEPT !.pc = "responded",
                                  !.dbCalls = Append(@, "Close"),
                                  !.response.ErrorMessage = "Operation execution failed"]
    /\ UNCHANGED <<heap, tests, currentTest, calls, workload, ret, mu, goroutines, exec>>

\* lines 567-597: the run is ended and the response filled in
HandlerRespond ==
    /\ handler.pc = "executing"
    /\ exec.pc = "returned"
    /\ exec.err = NoError
    /\ \E d \in TestDurations : EndTest(TestName, d)
    /\ handler' = [handler EXCEPT
           !.pc = "responded",
           !.dbCalls = Append(@, "Close"),
           !.isColdStart = FALSE,
           !.response.Success = TRUE,
           !.response.ItemsProcessed = exec.ItemsProcessed,
           !.response.Metrics =
               IF ret'.run # NilRun
                  /\ getParam(handler.request.Parameters, "collectMetrics", "bool", TRUE)
               THEN heap'[ret'.run].Summary
               ELSE EmptyMap]
    /\ UNCHANGED <<mu, goroutines, exec>>

\* the operation types requests name: the five case labels, one in capitals,
\* a name only the OperationFactory knows, and the empty string
RequestTypes ==
    {TypeReadSequential, TypeReadParallel, TypeWrite, TypeWriteBatch, TypeQuery,
     <<"Q", "U", "E", "R", "Y">>, TypeRead, <<>>}

RequestDatabases == {TypeDynamoDB, <<"I", "m", "m", "u", "D", "B">>, <<"s", "q", "l">>}

\* request.Parameters, with the keys main() gives and those a caller may add
RequestParameters(itemCount, concurrency, batchSize, random, collect) ==
    LET keys == {"itemCount", "concurrency", "batchSize", "db.endpoint"}
                    \cup (IF random THEN {"useRandomIDs"} ELSE {})
                    \cup (IF collect THEN {} ELSE {"collectMetrics"})
    IN [k \in keys |->
           CASE k = "itemCount" -> Typed("int", itemCount)
             [] k = "concurrency" -> Typed("int", concurrency)
             [] k = "batchSize" -> Typed("int", batchSize)
             [] k = "db.endpoint" -> Typed("string", "http://localhost:8000")
             [] k = "useRandomIDs" -> Typed("bool", TRUE)
             [] k = "collectMetrics" -> Typed("bool", FALSE)]

\* a request received by a fresh instance, and how the backend will answer
NewHandler(type, database, params, db) ==
    [pc |-> "received",
     request |-> [DatabaseType |-> database, OperationType |-> type, Parameters |-> params],
     db |-> db, isColdStart |-> TRUE, dbCalls |-> <<>>, response |-> [Success |-> FALSE]]

\* a backend whose adapter can be made, and its answers to the storage calls
Backend(fails, found) ==
    [create |-> TRUE, initialize |-> TRUE, fails |-> fails, found |-> found]

\* requests for reads and writes: the backend fails some of the tasks there are
GenericHandlers(type, batched, parallel) ==
    UNION {{NewHandler(type, TypeDynamoDB,
                       RequestParameters(n, c, b, FALSE, collect), Backend(fails, 0)) :
               fails \in SUBSET (1..(IF batched THEN NumBatches(n, b) ELSE n)),
               collect \in BOOLEAN} :
           n \in 0..MaxItems,
           c \in (IF parallel THEN 0..MaxConcurrency ELSE {1}),
           b \in (IF batched THEN 1..MaxBatchSize ELSE {1})}

\* requests for reads of random identifiers
RandomHandlers ==
    {NewHandler(type, TypeDynamoDB, RequestParameters(n, 1, 1, TRUE, collect),
                Backend({}, 0)) :
        type \in {TypeReadSequential, TypeReadParallel}, n \in 0..MaxItems,
        collect \in BOOLEAN}

\* requests for queries, of every database, whose adapter can be made or not
QueryHandlers ==
    {NewHandler(type, database, RequestParameters(0, 1, 1, FALSE, collect),
                [create |-> create, initialize |-> initialize,
                 fails |-> answer[1], found |-> answer[2]]) :
        type \in {TypeQuery, <<"Q", "U", "E", "R", "Y">>}, database \in RequestDatabases,
        collect \in BOOLEAN, create \in BOOLEAN, initialize \in BOOLEAN,
        answer \in {<<{1}, 0>>} \cup {<<{}, found>> : found \in 0..MaxItems}}

\* requests for an operation type createOperationStrategy has no case for
OtherHandlers ==
    {NewHandler(type, database, RequestParameters(0, 1, 1, FALSE, TRUE), Backend({}, 0)) :
        type \in RequestTypes \ {TypeReadSequential, TypeReadParallel, TypeWrite,
                                 TypeWriteBatch, TypeQuery, <<"Q", "U", "E", "R", "Y">>},
        database \in RequestDatabases}

Handlers ==
    GenericHandlers(TypeReadSequential, FALSE, FALSE)
        \cup GenericHandlers(TypeReadParallel, FALSE, TRUE)
        \cup GenericHandlers(TypeWrite, FALSE, FALSE)
        \cup GenericHandlers(TypeWriteBatch, TRUE, TRUE)
        \cup RandomHandlers \cup QueryHandlers \cup OtherHandlers

InitHandler ==
    /\ InitCollector
    /\ workload \in {wl \in ScriptedWorkloads : wl.a = 0 /\ wl.b = 0 /\ wl.f = 0 /\ wl.w = 0}
    /\ mu = Unlocked
    /\ goroutines = <<>>
    /\ handler \in Handlers
    /\ exec = NoExecute @@ [workers |-> <<>>]

\* one request, from its arrival to its response
NextHandler ==
    \/ HandlerStartTest
    \/ HandlerCreateAdapter
    \/ HandlerCreateStrategy
    \/ ExecuteBegin
    \/ \E t \in 1..MaxItems : Dispatch(t)
    \/ \E t \in DOMAIN exec.workers : WorkerMeasure(t)
    \/ \E t \in DOMAIN exec.workers : WorkerStorage(t)
    \/ \E t \in DOMAIN exec.workers : WorkerReturn(t)
    \/ WaitAll
    \/ ExecuteReturn
    \/ QueryMeasure
    \/ QueryStorage
    \/ QueryReturn
    \/ HandlerExecuteFailed
    \/ HandlerRespond

SpecHandler == InitHandler /\ [][NextHandler]_vars

\* ------------------------------------------------------------- the ledger strategies
\* line 30: the account of a write that names none, "acct-" and eight characters
\* of a fresh UUID
GeneratedAccount == "acct-1b9d6bcd"

\* immudb_operations.go lines 22-32
NewImmuDBWriteOperation(params) ==
    [kind |-> "ImmuDBWrite", isParallel |-> getParam(params, "parallel", "bool", FALSE),
     params |-> params, numTransactions |-> getParam(params, "numTransactions", "int", 10),
     uuids |-> <<>>, accountID |-> getParam(params, "accountID", "string", GeneratedAccount)]

\* lines 143-152
NewImmuDBReadOperation(params) ==
    [kind |-> "ImmuDBRead", isParallel |-> getParam(params, "parallel", "bool", FALSE),
     params |-> params, numTransactions |-> 0,
     uuids |-> getParam(params, "uuids", "[]string", <<>>),
     accountID |-> getParam(params, "accountID", "string", "")]

\* lines 270-300
NewImmuDBQueryOperation(params) ==
    [kind |-> "ImmuDBQuery", isParallel |-> FALSE, params |-> params,
     accountID |-> getParam(params, "accountID", "string", "")]

\* the transactions a write makes, the identifiers a read is given
LedgerCount(strategy) ==
    IF strategy.kind = "ImmuDBWrite" THEN strategy.numTransactions
    ELSE Len(strategy.uuids)

\* lines 61-66, 175-182: one goroutine per transaction in parallel mode; lines
\* 114-123, 236-247: one batch call otherwise
LedgerTasks(strategy) == IF strategy.isParallel THEN LedgerCount(strategy) ELSE 1

\* an Execute of a ledger strategy about to start, with the backend's answers
NewLedgerExecute(strategy, db) ==
    [pc |-> "created", op |-> strategy.kind, isParallel |-> strategy.isParallel,
     count |-> LedgerCount(strategy), accountID |-> strategy.accountID,
     concurrency |-> getParam(strategy.params, "concurrency", "int", 10),
     params |-> strategy.params, fails |-> db.fails, next |-> 1,
     workers |-> [t \in 1..LedgerTasks(strategy) |->
                     [pc |-> "none", call |-> 0, err |-> NoError]],
     errChan |-> <<>>, txChan |-> <<>>, transactions |-> <<>>,
     ItemsProcessed |-> 0, Errors |-> <<>>, err |-> NoError]

ErrNoUUIDs == "no UUIDs provided for read operation"

ErrNoAccount == "no account ID provided for read operation"

\* lines 36-58, 156-172: the result is made, a write generates its transactions,
\* a read checks its identifiers and its account
LedgerBegin ==
    /\ exec.pc = "created"
    /\ exec.op \in {"ImmuDBWrite", "ImmuDBRead"}
    /\ exec' = IF exec.op = "ImmuDBRead" /\ exec.count = 0
               THEN [exec EXCEPT !.pc = "returned", !.err = ErrNoUUIDs, !.workers = <<>>]
               ELSE IF exec.op = "ImmuDBRead" /\ exec.accountID = ""
               THEN [exec EXCEPT !.pc = "returned", !.err = ErrNoAccount, !.workers = <<>>]
               ELSE [exec EXCEPT !.pc = "running"]
    /\ UNCHANGED <<heap, tests, currentTest, calls, workload, ret, mu, goroutines, handler>>

\* lines 65-67, 181-183: wg.Add(1) and the go statement, for each transaction
\* in turn; lines 100, 222: the one batch call of the other mode
LedgerSpawn(t) ==
    /\ exec.pc = "running"
    /\ t = exec.next
    /\ t <= Len(exec.workers)
    /\ exec' = [exec EXCEPT !.next = t + 1, !.workers[t].pc = "spawned"]
    /\ UNCHANGED <<heap, tests, currentTest, calls, workload, ret, mu, goroutines, handler>>

\* what task t passes to MeasureOperation: lines 79-83, 115-119, 190-194, 237-241
LedgerInput(x, t) ==
    LET n == IF x.isParallel THEN 1 ELSE x.count
    IN [type |-> IF ~ x.isParallel THEN "BATCH"
                 ELSE IF x.op = "ImmuDBWrite" THEN "WRITE" ELSE "READ",
        itemCount |-> n, byteCount |-> n * ReadInput.byteCount, isColdStart |-> FALSE]

\* lines 88-90, 124-126, 201-205, 248-250: the error goes to errChan, or to
\* result.Errors in batch mode; a transaction read goes to txChan, the
\* transactions of a batch read are kept
LedgerOutcome(x, t, err) ==
    IF err # NoError
    THEN IF x.isParallel THEN [x EXCEPT !.errChan = Append(@, t)]
         ELSE [x EXCEPT !.Errors = Append(@, t)]
    ELSE IF x.op = "ImmuDBWrite" THEN x
    ELSE IF x.isParallel THEN [x EXCEPT !.txChan = Append(@, t)]
    ELSE [x EXCEPT !.transactions = [i \in 1..x.count |-> i]]

\* MeasureOperation up to the callback; a call the collector rejects returns at once
LedgerMeasure(t) ==
    /\ exec.pc = "running"
    /\ exec.workers[t].pc = "spawned"
    /\ MeasureBegin(LedgerInput(exec, t), FALSE, MaxItems, MaxItems)
    /\ exec' = IF currentTest = NilRun
               THEN [LedgerOutcome(exec, t, ErrNoTest) EXCEPT
                         !.workers[t].pc = "exited", !.workers[t].err = ErrNoTest]
               ELSE [exec EXCEPT !.workers[t].pc = "storage",
                                 !.workers[t].call = Len(calls) + 1]
    /\ UNCHANGED <<mu, goroutines, handler>>

\* lines 85, 121, 197, 244: db.WriteTransaction, db.BatchWriteTransactions,
\* db.ReadTransaction or db.BatchReadTransactions returns
LedgerStorage(t) ==
    /\ exec.pc = "running"
    /\ exec.workers[t].pc = "storage"
    /\ WorkReturns(exec.workers[t].call, IF t \in exec.fails THEN "e1" ELSE NoError,
                   ScriptDuration(workload, exec.workers[t].call))
    /\ exec' = [exec EXCEPT !.workers[t].pc = "measured"]
    /\ UNCHANGED <<mu, goroutines, handler>>

\* MeasureOperation returns, its outcome is kept, wg.Done()
LedgerReturn(t) ==
    /\ exec.pc = "running"
    /\ exec.workers[t].pc = "measured"
    /\ MeasureEnd(exec.workers[t].call)
    /\ LET err == MeasureResult(calls[exec.workers[t].call].err, currentTest)
       IN exec' = [LedgerOutcome(exec, t, err) EXCEPT
                       !.workers[t].pc = "exited", !.workers[t].err = err]
    /\ UNCHANGED <<mu, goroutines, handler>>

\* lines 129-132, 253-257: ItemsProcessed and the error Execute returns
LedgerResult(x, errors, transactions) ==
    [x EXCEPT !.pc = "returned", !.Errors = errors, !.transactions = transactions,
              !.ItemsProcessed = IF x.op = "ImmuDBWrite" THEN x.count - Len(errors)
                                 ELSE Len(transactions),
              !.err = NoError]

\* lines 94-99, 209-221: wg.Wait(), the channels closed and emptied into the
\* result; then the return
LedgerFinish ==
    /\ exec.pc = "running"
    /\ exec.next > Len(exec.workers)
    /\ \A t \in 1..Len(exec.workers) : exec.workers[t].pc = "exited"
    /\ exec' = LedgerResult(exec,
                            IF exec.isParallel THEN exec.errChan ELSE exec.Errors,
                            IF exec.isParallel THEN exec.txChan ELSE exec.transactions)
    /\ UNCHANGED <<heap, tests, currentTest, calls, workload, ret, mu, goroutines, handler>>

\* ------------------------------------------------------------- OperationFactory
\* part_005 lines 475-494: the builders, each named after the type it is
\* registered for
Build(builder, params) ==
    CASE builder = "read" ->
             NewReadOperation(params, getParam(params, "parallel", "bool", FALSE))
      [] builder = "write" ->
             NewWriteOperation(params, getParam(params, "batch", "bool", FALSE))
      [] builder = "query" -> NewQueryOperation(params)
      [] builder = "immudb_write" -> NewImmuDBWriteOperation(params)
      [] builder = "immudb_read" -> NewImmuDBReadOperation(params)
      [] builder = "immudb_query" -> NewImmuDBQueryOperation(params)

\* lines 469-497: factory.builders after NewOperationFactory
NewOperationFactory ==
    [t \in {TypeRead, TypeWrite, TypeQuery, TypeImmuDBWrite, TypeImmuDBRead,
            TypeImmuDBQuery} |->
        CASE t = TypeRead -> "read"
          [] t = TypeWrite -> "write"
          [] t = TypeQuery -> "query"
          [] t = TypeImmuDBWrite -> "immudb_write"
          [] t = TypeImmuDBRead -> "immudb_read"
          [] t = TypeImmuDBQuery -> "immudb_query"]

ErrUnknownOperation == "unknown operation type"

\* lines 505-511
CreateOperation(builders, opType, params) ==
    IF opType \in DOMAIN builders
    THEN [op |-> Build(builders[opType], params), err |-> NoError]
    ELSE [op |-> NilOperation, err |-> ErrUnknownOperation]

\* lines 500-502: f.builders[opType] = builder
Register(opType, builder) ==
    /\ handler.pc = "factory"
    /\ opType \notin DOMAIN handler.builders
    /\ handler' = [handler EXCEPT !.builders = Put(@, opType, builder)]
    /\ UNCHANGED <<heap, tests, currentTest, calls, workload, ret, mu, goroutines, exec>>

\* a caller asks its factory for a strategy
FactoryCreate ==
    /\ handler.pc = "factory"
    /\ LET made == CreateOperation(handler.builders, handler.opType, handler.params)
       IN handler' = [handler EXCEPT !.pc = IF made.err = NoError THEN "made"
                                            ELSE "rejected",
                                     !.op = made.op, !.err = made.err]
    /\ UNCHANGED <<heap, tests, currentTest, calls, workload, ret, mu, goroutines, exec>>

\* the caller starts the run its strategy is measured in and calls Execute; a
\* ledger strategy is followed further
FactoryStartTest ==
    /\ handler.pc = "made"
    /\ StartTest(TestName, 1)
    /\ handler' = [handler EXCEPT !.pc = "executing"]
    /\ exec' = IF handler.op.kind \in {"ImmuDBWrite", "ImmuDBRead"}
               THEN NewLedgerExecute(handler.op, handler.db)
               ELSE exec
    /\ UNCHANGED <<mu, goroutines>>

\* the parameters a caller of the factory gives for a ledger strategy
LedgerParameters(parallel, n, account, concurrency) ==
    LET keys == {"parallel", "numTransactions", "uuids", "concurrency"}
                    \cup (IF account THEN {"accountID"} ELSE {})
    IN [k \in keys |->
           CASE k = "parallel" -> Typed("bool", parallel)
             [] k = "numTransactions" -> Typed("int", n)
             [] k = "uuids" -> Typed("[]string", SubSeq(SuppliedIDs, 1, n))
             [] k = "concurrency" -> Typed("int", concurrency)
             [] k = "accountID" -> Typed("string", "other")]

NewFactoryCaller(opType, params, fails) ==
    [pc |-> "factory", builders |-> NewOperationFactory, opType |-> opType,
     params |-> params, db |-> Backend(fails, 0), op |-> NilOperation, err |-> NoError]

\* the types callers ask for: the registered ones, one in capitals, a type of the
\* handler's, and the empty string
FactoryTypes ==
    DOMAIN NewOperationFactory \cup {<<"R", "E", "A", "D">>, TypeReadParallel, <<>>}

\* callers of the ledger strategies, whose backend fails some of the tasks
\* there are, and callers asking for the other types
FactoryCallers ==
    UNION {{NewFactoryCaller(x.opType, LedgerParameters(x.parallel, n, account, c), fails) :
               fails \in SUBSET (1..(IF x.parallel THEN n ELSE 1)),
               account \in (IF x.opType = TypeImmuDBRead THEN BOOLEAN ELSE {TRUE}),
               c \in (IF x.parallel THEN 1..MaxConcurrency ELSE {1})} :
           x \in [opType : {TypeImmuDBWrite, TypeImmuDBRead}, parallel : BOOLEAN],
           n \in 0..MaxItems}
        \cup {NewFactoryCaller(opType, LedgerParameters(parallel, 0, TRUE, 1), {}) :
                 opType \in FactoryTypes \ {TypeImmuDBWrite, TypeImmuDBRead},
                 parallel \in BOOLEAN}

InitFactory ==
    /\ InitCollector
    /\ workload \in {wl \in ScriptedWorkloads : wl.a = 0 /\ wl.b = 0 /\ wl.f = 0 /\ wl.w = 0}
    /\ mu = Unlocked
    /\ goroutines = <<>>
    /\ handler \in FactoryCallers
    /\ exec = NoExecute @@ [workers |-> <<>>]

NextFactory ==
    \/ Register(TypeReadParallel, "read")
    \/ FactoryCreate
    \/ FactoryStartTest
    \/ LedgerBegin
    \/ \E t \in 1..MaxItems : LedgerSpawn(t)
    \/ \E t \in DOMAIN exec.workers : LedgerMeasure(t)
    \/ \E t \in DOMAIN exec.workers : LedgerStorage(t)
    \/ \E t \in DOMAIN exec.workers : LedgerReturn(t)
    \/ LedgerFinish

SpecFactory == InitFactory /\ [][NextFactory]_vars

\* ------------------------------------------------------------- the dedicated handlers
\* handleRequest of the functions dynamodb-read-parallel, dynamodb-read-sequential
\* and dynamodb-write, each with a collector of its own made by init(); the
\* tasks of an invocation are its identifiers, or its batches for the write
\* function, numbered from 1 in input order; fails holds the tasks whose storage
\* call returns an error; second is what time.Now().Format(time.RFC3339) gives
\* at this moment
ReadParallel == "dynamodb-read-parallel"

ReadSequential == "dynamodb-read-sequential"

DynamoWrite == "dynamodb-write"

\* read-parallel line 144, write line 176: concurrency = 10
DefaultConcurrency == 10

\* write lines 155-157: the DynamoDB batch write limit
BatchWriteLimit == 25

\* lines 107, 98, 140 and 229, 178, 316: fmt.Sprintf("<function>-%s", second);
\* all the names one function makes have its prefix and differ by the second
FormatTestName(fn, second) == second

\* read lines 127-139, write lines 160-171: the identifiers of the invocation
GenerateIDs(fn, request) ==
    IF fn # DynamoWrite /\ Len(request.TransactionIDs) > 0
    THEN request.TransactionIDs
    ELSE IF request.UseRandomIDs
    THEN [i \in 1..request.TransactionCount |-> <<"uuid", i>>]
    ELSE [i \in 1..request.TransactionCount |-> <<"txn", i - 1>>]

\* write lines 151-157
BatchSizeOf(request) ==
    IF request.BatchSize <= 0 THEN 1
    ELSE IF request.BatchSize > BatchWriteLimit THEN BatchWriteLimit
    ELSE request.BatchSize

\* write lines 180-194: the loop over the identifiers from the i-th on, and the
\* batch left over
RECURSIVE MakeBatches(_, _, _, _, _)
MakeBatches(ids, batchSize, i, currentBatch, batches) ==
    IF i > Len(ids)
    THEN IF Len(currentBatch) > 0 THEN Append(batches, currentBatch) ELSE batches
    ELSE IF Len(currentBatch) + 1 >= batchSize
    THEN MakeBatches(ids, batchSize, i + 1, <<>>,
                     Append(batches, Append(currentBatch, ids[i])))
    ELSE MakeBatches(ids, batchSize, i + 1, Append(currentBatch, ids[i]), batches)

\* the tasks: one identifier each for the reads, the batches for the write
TasksOf(fn, request) ==
    LET ids == GenerateIDs(fn, request)
    IN IF fn = DynamoWrite
       THEN MakeBatches(ids, BatchSizeOf(request), 1, <<>>, <<>>)
       ELSE [i \in 1..Len(ids) |-> <<ids[i]>>]

\* read-parallel lines 142-148, write lines 174-177: the workers to start; the
\* write function starts as many as asked for
ConcurrencyOf(fn, request, numTasks) ==
    LET concurrency == IF request.Concurrency <= 0 THEN DefaultConcurrency
                       ELSE request.Concurrency
    IN IF fn = ReadParallel /\ concurrency > numTasks THEN numTasks ELSE concurrency

\* what the handler passes to MeasureOperation for a task: read-parallel lines
\* 165-174, read-sequential 138-147, write 224-232 and 250-258
DedicatedInput(h, t) ==
    LET n == Len(h.tasks[t])
    IN [type |-> IF h.fn # DynamoWrite THEN "READ"
                 ELSE IF n = 1 THEN "WRITE" ELSE "BATCH",
        itemCount |-> n, byteCount |-> h.request.DataSizeBytes * n,
        isColdStart |-> h.isColdStart /\ h.request.IsColdStart]

\* db.ReadTransaction, db.WriteTransaction or db.BatchWriteTransactions of task t
DedicatedStorageError(h, t) == IF t \in h.fails THEN "e1" ELSE NoError

NoWorker == [pc |-> "none", task |-> 0, call |-> 0]

\* an invocation about to run, on the first second of the clock
NewDedicated(fn, request, fails) ==
    [pc |-> "received", fn |-> fn, request |-> request, fails |-> fails,
     second |-> "A", isColdStart |-> TRUE, transactionIDs |-> <<>>, tasks |-> <<>>,
     concurrency |-> 0, spawned |-> 0, sent |-> 0, taskChan |-> <<>>,
     closed |-> FALSE, workers |-> <<>>, results |-> <<>>, next |-> 1,
     loop |-> NoWorker, testResult |-> NilRun,
     response |-> [Transactions |-> 0, Errors |-> <<>>, Metrics |-> EmptyMap,
                   TransactionIDs |-> <<>>]]

\* the clock passes to the next second: before the handler makes the name for
\* StartTest, or between that and its making the name for EndTest (nothing
\* else reads the clock, so the moment in between is the last one)
Tick ==
    /\ handler.pc \in {"received", "processed"}
    /\ handler.second = "A"
    /\ handler' = [handler EXCEPT !.second = "B"]
    /\ UNCHANGED <<heap, tests, currentTest, calls, workload, ret, mu, goroutines, exec>>

\* read-parallel lines 105-156, read-sequential 96-131, write 138-207:
\* StartTest when collectMetrics is set, the identifiers, the batches, the
\* concurrency and the two channels
DedicatedStart ==
    /\ handler.pc = "received"
    /\ IF handler.request.CollectMetrics
       THEN StartTest(FormatTestName(handler.fn, handler.second), 1)
       ELSE UNCHANGED <<heap, tests, currentTest, calls, workload, ret>>
    /\ LET tasks == TasksOf(handler.fn, handler.request)
           concurrency == ConcurrencyOf(handler.fn, handler.request, Len(tasks))
       IN handler' = [handler EXCEPT
              !.pc = IF handler.fn = ReadSequential THEN "loop" ELSE "pool",
              !.transactionIDs = GenerateIDs(handler.fn, handler.request),
              !.tasks = tasks,
              !.concurrency = concurrency,
              !.workers = IF handler.fn = ReadSequential THEN <<>>
                          ELSE [w \in 1..concurrency |-> NoWorker]]
    /\ UNCHANGED <<mu, goroutines, exec>>

\* read-parallel lines 158-160, write 210-212: wg.Add(1) and the go statement
\* of worker w, which waits at its range over the task channel
PoolSpawn(w) ==
    /\ handler.pc = "pool"
    /\ w = handler.spawned + 1
    /\ w <= handler.concurrency
    /\ handler' = [handler EXCEPT !.spawned = w, !.workers[w].pc = "waiting"]
    /\ UNCHANGED <<heap, tests, currentTest, calls, workload, ret, mu, goroutines, exec>>

\* read-parallel lines 190-192, write 274-276: task t goes into the task
\* channel, which has room for all the tasks
PoolSend(t) ==
    /\ handler.pc = "pool"
    /\ handler.spawned = handler.concurrency
    /\ t = handler.sent + 1
    /\ t <= Len(handler.tasks)
    /\ handler' = [handler EXCEPT !.sent = t, !.taskChan = Append(@, t)]
    /\ UNCHANGED <<heap, tests, currentTest, calls, workload, ret, mu, goroutines, exec>>

\* read-parallel line 193, write 277: close(taskChan); the handler is at wg.Wait()
PoolClose ==
    /\ handler.pc = "pool"
    /\ handler.spawned = handler.concurrency
    /\ handler.sent = Len(handler.tasks)
    /\ handler' = [handler EXCEPT !.closed = TRUE, !.pc = "wait"]
    /\ UNCHANGED <<heap, tests, currentTest, calls, workload, ret, mu, goroutines, exec>>

\* results <- Result{...}: the channel has room for one result per task
SendResult(h, w, t, err) ==
    [h EXCEPT !.results = Append(@, [task |-> t, worker |-> w, err |-> err]),
              !.workers[w] = [pc |-> "waiting", task |-> 0, call |-> 0]]

\* the rest of the channel after a receive
Receive(chan) == Tail(chan)

\* read-parallel lines 161-174, write 214-232 and 250-258: worker w receives
\* the next task and calls MeasureOperation, which runs up to the callback; a
\* call the collector rejects returns its error at once, and the result is sent
PoolTake(w) ==
    /\ handler.pc \in {"pool", "wait"}
    /\ handler.workers[w].pc = "waiting"
    /\ handler.taskChan # <<>>
    /\ LET t == Head(handler.taskChan)
           h == [handler EXCEPT !.taskChan = Receive(@)]
       IN /\ MeasureBegin(DedicatedInput(handler, t), FALSE, MaxItems, MaxItems)
          /\ handler' = IF currentTest = NilRun
                        THEN SendResult(h, w, t, ErrNoTest)
                        ELSE [h EXCEPT !.workers[w] =
                                 [pc |-> "storage", task |-> t, call |-> Len(calls) + 1]]
    /\ UNCHANGED <<mu, goroutines, exec>>

\* read-parallel lines 170-173, write 229-231 and 255-257: the storage call
\* within the callback returns
PoolStorage(w) ==
    /\ handler.pc \in {"pool", "wait"}
    /\ handler.workers[w].pc = "storage"
    /\ WorkReturns(handler.workers[w].call,
                   DedicatedStorageError(handler, handler.workers[w].task),
                   ScriptDuration(workload, handler.workers[w].call))
    /\ handler' = [handler EXCEPT !.workers[w].pc = "measured"]
    /\ UNCHANGED <<mu, goroutines, exec>>

\* read-parallel lines 174-185, write 232-240 and 258-267: MeasureOperation
\* returns and the result of the task is sent
PoolReturn(w) ==
    /\ handler.pc \in {"pool", "wait"}
    /\ handler.workers[w].pc = "measured"
    /\ MeasureEnd(handler.workers[w].call)
    /\ handler' = SendResult(handler, w, handler.workers[w].task,
                      MeasureResult(calls[handler.workers[w].call].err, currentTest))
    /\ UNCHANGED <<mu, goroutines, exec>>

\* read-parallel lines 160-161, write 213-214: the range over the closed and
\* empty task channel ends, the deferred wg.Done() runs
PoolExit(w) ==
    /\ handler.pc = "wait"
    /\ handler.workers[w].pc = "waiting"
    /\ handler.taskChan = <<>>
    /\ handler' = [handler EXCEPT !.workers[w].pc = "exited"]
    /\ UNCHANGED <<heap, tests, currentTest, calls, workload, ret, mu, goroutines, exec>>

\* the tasks of the results that carry an error, in the order of the channel
RECURSIVE ResultErrors(_)
ResultErrors(results) ==
    IF results = <<>> THEN <<>>
    ELSE IF Head(results).err # NoError
    THEN <<Head(results).task>> \o ResultErrors(Tail(results))
    ELSE ResultErrors(Tail(results))

\* read-parallel lines 200-225, write 284-312: the response made from the results
Processed(h) ==
    LET errors == ResultErrors(h.results)
    IN [h EXCEPT !.pc = "processed",
                 !.response.Errors = errors,
                 !.response.Transactions =
                     IF h.fn = DynamoWrite
                     THEN h.request.TransactionCount - Len(errors)
                     ELSE Len(h.results) - Len(errors),
                 !.response.TransactionIDs =
                     IF h.fn = DynamoWrite \/ Len(h.request.TransactionIDs) = 0
                     THEN h.transactionIDs ELSE <<>>]

\* a bug: wg.Wait() left out, the results are read while workers still run
PoolWaitEarly ==
    /\ handler.pc = "wait"
    /\ handler' = Processed(handler)
    /\ UNCHANGED <<heap, tests, currentTest, calls, workload, ret, mu, goroutines, exec>>

\* read-parallel lines 196-225, write 280-312: wg.Wait(), close(results) and
\* the range over the results
PoolWait ==
    /\ handler.pc = "wait"
    /\ \A w \in DOMAIN handler.workers : handler.workers[w].pc = "exited"
    /\ handler' = Processed(handler)
    /\ UNCHANGED <<heap, tests, currentTest, calls, workload, ret, mu, goroutines, exec>>

\* read-sequential lines 134-158: the outcome of one round of the loop
LoopNext(h, err) ==
    [h EXCEPT !.next = @ + 1, !.loop = NoWorker,
              !.response.Errors = IF err # NoError THEN Append(@, h.next) ELSE @,
              !.response.Transactions = IF err # NoError THEN @ ELSE @ + 1]

\* read-sequential lines 134-147: MeasureOperation for the next identifier
LoopMeasure ==
    /\ handler.pc = "loop"
    /\ handler.loop.pc = "none"
    /\ handler.next <= Len(handler.tasks)
    /\ MeasureBegin(DedicatedInput(handler, handler.next), FALSE, MaxItems, MaxItems)
    /\ handler' = IF currentTest = NilRun
                  THEN LoopNext(handler, ErrNoTest)
                  ELSE [handler EXCEPT !.loop =
                           [pc |-> "storage", task |-> handler.next,
                            call |-> Len(calls) + 1]]
    /\ UNCHANGED <<mu, goroutines, exec>>

\* read-sequential lines 143-146: db.ReadTransaction returns
LoopStorage ==
    /\ handler.pc = "loop"
    /\ handler.loop.pc = "storage"
    /\ WorkReturns(handler.loop.call, DedicatedStorageError(handler, handler.loop.task),
                   ScriptDuration(workload, handler.loop.call))
    /\ handler' = [handler EXCEPT !.loop.pc = "measured"]
    /\ UNCHANGED <<mu, goroutines, exec>>

\* read-sequential lines 147-158: MeasureOperation returns, the error is kept
\* or the read is counted
LoopReturn ==
    /\ handler.pc = "loop"
    /\ handler.loop.pc = "measured"
    /\ MeasureEnd(handler.loop.call)
    /\ handler' = LoopNext(handler,
                      MeasureResult(calls[handler.loop.call].err, currentTest))
    /\ UNCHANGED <<mu, goroutines, exec>>

\* read-sequential lines 160-174: the loop is over
LoopDone ==
    /\ handler.pc = "loop"
    /\ handler.loop.pc = "none"
    /\ handler.next > Len(handler.tasks)
    /\ handler' = [handler EXCEPT
           !.pc = "processed",
           !.response.TransactionIDs =
               IF Len(handler.request.TransactionIDs) = 0
               THEN handler.transactionIDs ELSE <<>>]
    /\ UNCHANGED <<heap, tests, currentTest, calls, workload, ret, mu, goroutines, exec>>

\* read-parallel lines 227-242, read-sequential 176-191, write 314-329: EndTest
\* under a name made from the clock as it is now, the summary of the run it
\* returns, and the cold start flag
DedicatedEnd ==
    /\ handler.pc = "processed"
    /\ IF handler.request.CollectMetrics
       THEN /\ \E d \in TestDurations :
                  EndTest(FormatTestName(handler.fn, handler.second), d)
            /\ handler' = [handler EXCEPT
                   !.pc = "responded", !.isColdStart = FALSE,
                   !.testResult = ret'.run,
                   !.response.Metrics = IF ret'.run # NilRun
                                        THEN heap'[ret'.run].Summary ELSE @]
       ELSE /\ handler' = [handler EXCEPT !.pc = "responded", !.isColdStart = FALSE]
            /\ UNCHANGED <<heap, tests, currentTest, calls, workload, ret>>
    /\ UNCHANGED <<mu, goroutines, exec>>

\* the storage calls that fail: none, the first, or all
FailSets(n) == {{}, 1..n} \cup {{1} : k \in 1..n}

DedicatedRequest(count, concurrency, batchSize, collect, random, ids) ==
    [TransactionCount |-> count, Concurrency |-> concurrency, BatchSize |-> batchSize,
     CollectMetrics |-> collect, UseRandomIDs |-> random, TransactionIDs |-> ids,
     IsColdStart |-> FALSE, DataSizeBytes |-> ReadInput.byteCount]

\* the invocations: every count and concurrency, 0 included, for the pool of
\* the read function, a list of identifiers supplied to it, and for the write
\* function every batch size, with the default concurrency for at most one item
DedicatedHandlers ==
    UNION {{NewDedicated(ReadParallel,
                DedicatedRequest(n, c, 0, m, FALSE, <<>>), f) : f \in FailSets(n)}
           : n \in 0..MaxItems, c \in 0..MaxConcurrency, m \in BOOLEAN}
    \cup {NewDedicated(ReadParallel,
              DedicatedRequest(0, MaxConcurrency, 0, m, TRUE, SubSeq(SuppliedIDs, 1, 2)), f)
           : m \in BOOLEAN, f \in FailSets(2)}
    \cup UNION {{NewDedicated(ReadSequential,
                     DedicatedRequest(n, 0, 0, m, r, <<>>), f) : f \in FailSets(n)}
                : n \in 0..MaxItems, m \in BOOLEAN, r \in BOOLEAN}
    \cup UNION {{NewDedicated(DynamoWrite,
                     DedicatedRequest(n, c, b, m, FALSE, <<>>), f)
                 : f \in FailSets(NumBatches(n, IF b = 0 THEN 1 ELSE b))}
                : n \in 0..MaxItems, c \in 1..MaxConcurrency, b \in 0..MaxBatchSize,
                  m \in BOOLEAN}
    \cup UNION {{NewDedicated(DynamoWrite,
                     DedicatedRequest(n, 0, 1, m, FALSE, <<>>), f) : f \in FailSets(n)}
                : n \in 0..1, m \in BOOLEAN}

InitDedicated ==
    /\ InitCollector
    /\ workload \in {wl \in ScriptedWorkloads : wl.a = 0 /\ wl.b = 0 /\ wl.f = 0 /\ wl.w = 0}
    /\ mu = Unlocked
    /\ goroutines = <<>>
    /\ exec = NoExecute
    /\ handler \in DedicatedHandlers

NextDedicated ==
    \/ Tick
    \/ DedicatedStart
    \/ \E w \in 1..DefaultConcurrency : PoolSpawn(w)
    \/ \E t \in 1..MaxItems : PoolSend(t)
    \/ PoolClose
    \/ \E w \in DOMAIN handler.workers : PoolTake(w)
    \/ \E w \in DOMAIN handler.workers : PoolStorage(w)
    \/ \E w \in DOMAIN handler.workers : PoolReturn(w)
    \/ \E w \in DOMAIN handler.workers : PoolExit(w)
    \/ PoolWait
    \/ LoopMeasure
    \/ LoopStorage
    \/ LoopReturn
    \/ LoopDone
    \/ DedicatedEnd

SpecDedicated == InitDedicated /\ [][NextDedicated]_vars

\* ------------------------------------------------------------- parameter lookup
\* the numbers callers store under a key: a Go int, the float64 a JSON number
\* decodes to, an int64
ParamValues == {Typed("int", 2), Typed("float64", 2), Typed("int64", 2)}

\* keys the strategies look up, one of the database adapter and one nobody reads
ParamKeys == {"itemCount", "concurrency", "db.endpoint", "note"}

ParamMaps == UNION {[keys -> ParamValues] : keys \in SUBSET ParamKeys}

\* calls of getParam: part_005 lines 101, 105, 235 and 404
Lookups ==
    {[key |-> "itemCount", T |-> "int", defaultValue |-> 100],
     [key |-> "concurrency", T |-> "int", defaultValue |-> 10],
     [key |-> "batchSize", T |-> "int", defaultValue |-> 25],
     [key |-> "limit", T |-> "int64", defaultValue |-> 100]}

\* a caller with its map, about to look a key up and to have a strategy made
NewLookup(params, lookup, opType) ==
    [pc |-> "params", params |-> params, lookup |-> lookup, opType |-> opType,
     result |-> 0, input |-> ReadInput]

\* part_005 lines 38-45: one call of getParam
ParamLookup ==
    /\ handler.pc = "params"
    /\ handler' = [handler EXCEPT
           !.pc = "looked",
           !.result = getParam(handler.params, handler.lookup.key, handler.lookup.T,
                               handler.lookup.defaultValue)]
    /\ UNCHANGED <<heap, tests, currentTest, calls, workload, ret, mu, goroutines, exec>>

\* immudb_operations.go lines 481-512 and part_005 lines 101-108, 233-238,
\* 404-419: the strategy is made from the caller's map and reads its parameters
ParamStrategy ==
    /\ handler.pc = "looked"
    /\ LET made == createOperationStrategy(handler.opType, handler.params)
       IN /\ handler' = [handler EXCEPT !.pc = "made",
                                        !.input = QueryInput(made.op.params)]
          /\ exec' = Execution(made.op, Backend({}, 0))
    /\ UNCHANGED <<heap, tests, currentTest, calls, workload, ret, mu, goroutines>>

InitParams ==
    /\ InitCollector
    /\ workload \in {wl \in ScriptedWorkloads : wl.a = 0 /\ wl.b = 0 /\ wl.f = 0 /\ wl.w = 0}
    /\ mu = Unlocked
    /\ goroutines = <<>>
    /\ exec = NoExecute
    /\ handler \in {NewLookup(params, lookup, opType) :
                       params \in ParamMaps, lookup \in Lookups,
                       opType \in {TypeReadParallel, TypeWriteBatch}}

NextParams ==
    \/ ParamLookup
    \/ ParamStrategy

SpecParams == InitParams /\ [][NextParams]_vars

\* ------------------------------------------------------------- the claims
Runs == 1..Len(heap)

\* the places of call c's metric in run r
RecordsOf(r, c) == {i \in 1..Len(heap[r].Operations) : heap[r].Operations[i].call = c}

ReturnedCalls == {c \in 1..Len(calls) : calls[c].pc = "returned"}

\* C1: once a run named B has superseded a run named A, a MeasureOperation call
\* that finishes puts its metric at the end of B, the current run, no run other
\* than the current one ever gains or loses a metric, and EndTest(A) returns nil
\* and changes nothing.
C1_SupersededRunGetsNothing ==
    [][ /\ \A r \in Runs :
              r # currentTest => heap'[r].Operations = heap[r].Operations
        /\ \A c \in 1..Len(calls) :
              (calls[c].pc = "measured" /\ calls'[c].pc = "returned"
                 /\ currentTest # NilRun)
              => /\ Len(heap'[currentTest].Operations)
                      = Len(heap[currentTest].Operations) + 1
                 /\ heap'[currentTest].Operations[Len(heap'[currentTest].Operations)].call = c
        /\ (ret'.op = "EndTest" /\ currentTest # NilRun
               /\ heap[currentTest].TestName # ret'.name)
           => (ret'.run = NilRun /\ UNCHANGED <<heap, tests, currentTest>>) ]_vars

C1_Witness ==
    \E a \in Runs, b \in Runs, c \in ReturnedCalls :
        /\ a < b
        /\ heap[a].TestName # heap[b].TestName
        /\ currentTest = b
        /\ calls[c].startRun = b
        /\ RecordsOf(b, c) # {}
        /\ ret = Returned("EndTest", heap[a].TestName, NilRun, NoError)

\* C2: a MeasureOperation call with a nil callback, or made while no run is
\* current, returns the matching error, starts no callback and changes neither
\* the runs, the table nor the current pointer; while no run is current no
\* callback starts at all.
C2_RejectedCallTouchesNothing ==
    [][ /\ \A isNil \in BOOLEAN :
              ( /\ MeasureBegin(ScriptInput(workload, Len(calls) + 1), isNil,
                                MaxCalls, MaxInFlight)
                /\ (isNil \/ currentTest = NilRun) )
              => /\ ret' = Returned("MeasureOperation", "", NilRun,
                                    IF isNil THEN ErrNilOperation ELSE ErrNoTest)
                 /\ UNCHANGED <<heap, tests, currentTest, calls>>
        /\ currentTest = NilRun => Len(calls') = Len(calls)
        /\ (ret'.op = "MeasureOperation" /\ ret'.err \in {ErrNilOperation, ErrNoTest})
           => UNCHANGED <<heap, tests, currentTest, calls>> ]_vars

C2_Witness ==
    /\ ret = Returned("MeasureOperation", "", NilRun, ErrNoTest)
    /\ currentTest = NilRun
    /\ \E r \in Runs : heap[r].ended /\ tests[heap[r].TestName] = r

\* C3: a MeasureOperation call that ran its callback returns what the callback
\* returned, nil or not.
C3_PassThroughError ==
    \A c \in ReturnedCalls : calls[c].returned = ScriptError(workload, c)

C3_Witness ==
    \E c \in ReturnedCalls, d \in ReturnedCalls :
        /\ calls[c].returned = "e1"
        /\ calls[d].returned = NoError
        /\ currentTest = NilRun
        /\ \A r \in Runs : RecordsOf(r, c) = {}

\* C4: while a run is still current, each call that began under it and has
\* returned has exactly one metric in it, with the call's type, item count, byte
\* count, cold-start flag and outcome, and no call has two metrics anywhere.
C4_OneRecordPerCall ==
    /\ \A c \in ReturnedCalls :
          (currentTest # NilRun /\ calls[c].startRun = currentTest)
          => /\ Cardinality(RecordsOf(currentTest, c)) = 1
             /\ \A i \in RecordsOf(currentTest, c) :
                   LET m == heap[currentTest].Operations[i]
                       in == ScriptInput(workload, c)
                   IN /\ m.Type = in.type
                      /\ m.ItemCount = in.itemCount
                      /\ m.ByteCount = in.byteCount
                      /\ m.IsColdStart = in.isColdStart
                      /\ m.Error = ScriptError(workload, c)
    /\ \A c \in 1..Len(calls), r \in Runs, q \in Runs :
          /\ Cardinality(RecordsOf(r, c)) <= 1
          /\ (RecordsOf(r, c) # {} /\ RecordsOf(q, c) # {}) => r = q

\* two overlapping calls of the current run, the later one finishing first
C4_Witness ==
    /\ currentTest # NilRun
    /\ Len(heap[currentTest].Operations) = 2
    /\ heap[currentTest].Operations[1].call = 2
    /\ heap[currentTest].Operations[2].call = 1
    /\ heap[currentTest].Operations[1].Error # heap[currentTest].Operations[2].Error
    /\ \A c \in 1..2 : calls[c].pc = "returned" /\ calls[c].startRun = currentTest

\* C5: every MeasureOperation call that has returned after running its callback
\* has exactly one metric in some run.
C5_EveryCallRecorded ==
    \A c \in ReturnedCalls :
        Cardinality({r \in Runs : RecordsOf(r, c) # {}}) = 1

\* ------------------------------------------------------------- the summary
EndedRuns == {r \in Runs : heap[r].ended}

\* summary[k] as a number, a missing key counting as 0
Val(r, k) == IF k \in DOMAIN heap[r].Summary THEN heap[r].Summary[k] ELSE 0

Failed(r) == {i \in 1..Len(heap[r].Operations) : heap[r].Operations[i].Error # NoError}

Succeeded(r) == {i \in 1..Len(heap[r].Operations) : heap[r].Operations[i].Error = NoError}

ColdStarts(r) == {i \in 1..Len(heap[r].Operations) : heap[r].Operations[i].IsColdStart}

\* the sum of field f over the first n metrics
RECURSIVE FieldSum(_, _, _)
FieldSum(ops, f, n) == IF n = 0 THEN 0 ELSE ops[n][f] + FieldSum(ops, f, n - 1)

\* C6: the summary of every ended run has successCount + errorCount equal to
\* operationCount (a missing key counting as 0).
C6_SummaryConservation ==
    \A r \in EndedRuns :
        Val(r, "successCount") + Val(r, "errorCount") = Val(r, "operationCount")

\* C7: an ended run to which no custom metric p50, p90 or p99 was added has the
\* three percentile keys when it holds at least 10 metrics and none of them
\* otherwise; 5 successful operations give operationCount 5, successCount 5 and
\* errorCount 0, and 12 operations of which 6 failed give successRate 1/2.
C7_PercentilesFromTenOperations ==
    \A r \in EndedRuns :
        LET n == Len(heap[r].Operations)
            keys == DOMAIN heap[r].Summary
        IN /\ (DOMAIN heap[r].custom \cap PercentileKeys = {})
              => /\ (n >= 10 => PercentileKeys \subseteq keys)
                 /\ (n < 10 => PercentileKeys \cap keys = {})
           /\ (n = 5 /\ Failed(r) = {})
              => /\ heap[r].Summary["operationCount"] = 5
                 /\ heap[r].Summary["successCount"] = 5
                 /\ heap[r].Summary["errorCount"] = 0
           /\ (n = 12 /\ Cardinality(Failed(r)) = 6)
              => /\ 2 * heap[r].Summary["successRate"][1] = heap[r].Summary["successRate"][2]
                 /\ heap[r].Summary["successRate"][2] # 0

C7_Witness ==
    \E r \in EndedRuns :
        /\ Len(heap[r].Operations) = 12
        /\ Cardinality(Failed(r)) = 6
        /\ DOMAIN heap[r].custom = {"note"}
        /\ PercentileKeys \subseteq DOMAIN heap[r].Summary

\* C8: in an ended run of at least 10 metrics, p50 <= p90 <= p99 and each of
\* them lies between the smallest and the largest duration of the run.
C8_PercentilesOrdered ==
    \A r \in EndedRuns :
        LET ops == heap[r].Operations
            sm == heap[r].Summary
        IN Len(ops) >= 10
           => /\ sm["p50"] <= sm["p90"]
              /\ sm["p90"] <= sm["p99"]
              /\ \A k \in PercentileKeys :
                    /\ \E i \in 1..Len(ops) : ops[i].Duration <= sm[k]
                    /\ \E i \in 1..Len(ops) : ops[i].Duration >= sm[k]

\* a run whose durations were recorded out of order and whose percentiles differ
C8_Witness ==
    \E r \in EndedRuns :
        /\ Len(heap[r].Operations) >= 10
        /\ heap[r].Operations[1].Duration > heap[r].Operations[2].Duration
        /\ heap[r].Summary["p50"] < heap[r].Summary["p99"]

\* C9: in every ended run operationCount is the number of metrics, totalItems,
\* totalBytes and totalDuration are the sums of their item counts, byte counts
\* and durations, successCount and errorCount the numbers of metrics without and
\* with an error, and coldStartCount the number flagged cold-start (a missing
\* key counting as 0).
C9_StatisticsFromRecords ==
    \A r \in EndedRuns :
        LET ops == heap[r].Operations
        IN /\ Val(r, "operationCount") = Len(ops)
           /\ Val(r, "totalItems") = FieldSum(ops, "ItemCount", Len(ops))
           /\ Val(r, "totalBytes") = FieldSum(ops, "ByteCount", Len(ops))
           /\ Val(r, "totalDuration") = FieldSum(ops, "Duration", Len(ops))
           /\ Val(r, "successCount") = Cardinality(Succeeded(r))
           /\ Val(r, "errorCount") = Cardinality(Failed(r))
           /\ Val(r, "coldStartCount") = Cardinality(ColdStarts(r))

\* the element of rank idx (from 0) among the durations in ascending order
RankedDuration(ops, idx) ==
    CHOOSE v \in {ops[i].Duration : i \in 1..Len(ops)} :
        /\ Cardinality({i \in 1..Len(ops) : ops[i].Duration < v}) <= idx
        /\ idx < Cardinality({i \in 1..Len(ops) : ops[i].Duration <= v})

\* C10: in every ended run, a custom metric stored under a key EndTest does not
\* compute keeps the value last given to AddCustomMetric, and one stored under a
\* computed key (successCount; p50 from 10 metrics on) holds the computed
\* statistic instead, however many metrics the run has.
C10_ComputedKeysReplaceCustom ==
    \A r \in EndedRuns :
        LET ops == heap[r].Operations
        IN \A k \in DOMAIN heap[r].custom :
              /\ k \in DOMAIN heap[r].Summary
              /\ heap[r].Summary[k] =
                    IF k = "successCount" THEN Cardinality(Succeeded(r))
                    ELSE IF k = "p50" /\ Len(ops) >= 10
                    THEN RankedDuration(ops, (Len(ops) * 50) \div 100)
                    ELSE heap[r].custom[k]

\* C11: EndTest under a name that is not the current run's name (unknown, already
\* ended, superseded, or no run current) returns nil and leaves the table, the
\* current pointer and every run as they were; an EndTest that returns a run
\* returns the current one and leaves no run current, so that an EndTest right
\* after it returns nil.
C11_EndTestOnlyEndsCurrent ==
    [][ ret'.op = "EndTest" =>
          /\ (currentTest = NilRun \/ heap[currentTest].TestName # ret'.name)
             => (ret'.run = NilRun /\ UNCHANGED <<heap, tests, currentTest>>)
          /\ ret'.run # NilRun
             => (ret'.run = currentTest /\ currentTest' = NilRun)
          /\ (ret.op = "EndTest" /\ ret.run # NilRun) => ret'.run = NilRun ]_vars

\* EndTest("A") has just returned nil for the run it ended before, which kept
\* its record
C11_Witness ==
    \E r \in EndedRuns :
        /\ tests[heap[r].TestName] = r
        /\ Len(heap[r].Operations) > 0
        /\ currentTest = NilRun
        /\ ret = Returned("EndTest", heap[r].TestName, NilRun, NoError)

\* C12: no step of the collector (a measured call finishing or starting,
\* AddCustomMetric, StartTest, EndTest, GetTestResult, ResetCollector) changes
\* the record sequence, the summary or the end time of a run EndTest has
\* returned.
C12_EndedRunIsFrozen ==
    [][ \A r \in Runs :
           heap[r].ended
           => /\ heap'[r].Operations = heap[r].Operations
              /\ heap'[r].Summary = heap[r].Summary
              /\ heap'[r].Duration = heap[r].Duration
              /\ heap'[r].ended ]_vars

\* a call in flight when its run was ended has finished in the next run, which
\* also took a custom metric, and the ended run was retrieved after that
C12_Witness ==
    \E r \in EndedRuns, c \in ReturnedCalls :
        /\ calls[c].startRun = r
        /\ currentTest # NilRun
        /\ currentTest # r
        /\ RecordsOf(currentTest, c) # {}
        /\ heap[currentTest].custom # EmptyMap
        /\ heap[r].Operations = <<>>
        /\ ret = Returned("GetTestResult", heap[r].TestName, r, NoError)

\* C13: the table entry of a name keeps pointing at the same run through every
\* step but a StartTest under that name and ResetCollector, whether the run is
\* in progress, superseded or ended; GetTestResult returns the table entry; and
\* a StartTest leaves the runs allocated before it as they were.
C13_RunStaysRetrievable ==
    [][ /\ \A n \in Names :
              ( /\ tests[n] # NilRun
                /\ ~ ResetCollector
                /\ ~ (Len(heap') > Len(heap) /\ heap'[Len(heap')].TestName = n) )
              => tests'[n] = tests[n]
        /\ ret'.op = "GetTestResult" => ret'.run = tests[ret'.name]
        /\ Len(heap') > Len(heap) => \A r \in Runs : heap'[r] = heap[r] ]_vars

\* run "A" holds a record, was superseded by a run "B" that was ended, and
\* GetTestResult("A") has just returned it
C13_Witness ==
    \E a \in Runs, b \in EndedRuns :
        /\ a < b
        /\ heap[a].TestName # heap[b].TestName
        /\ ~ heap[a].ended
        /\ Len(heap[a].Operations) > 0
        /\ tests[heap[b].TestName] = b
        /\ ret = Returned("GetTestResult", heap[a].TestName, a, NoError)

\* the runs the collector still points at, through its table or as current
Reachable == {tests[n] : n \in Names} \cup {currentTest}

\* C14: a StartTest under a name already in the table stores a new, empty run
\* under the name and makes it current, after which the run stored before is
\* reachable neither through the table nor as the current run; and
\* GetTestResult returns what the table stores.
C14_RestartReplacesRun ==
    [][ /\ \A n \in Names :
              ( /\ tests[n] # NilRun
                /\ Len(heap') = Len(heap) + 1
                /\ heap'[Len(heap')].TestName = n )
              => /\ tests'[n] = Len(heap')
                 /\ currentTest' = Len(heap')
                 /\ heap'[Len(heap')] = NewTestResult(n)
                 /\ tests[n] \notin {tests'[m] : m \in Names} \cup {currentTest'}
        /\ \A r \in Runs :
              r \notin Reachable => r \notin {tests'[m] : m \in Names} \cup {currentTest'}
        /\ ret'.op = "GetTestResult"
           => (ret'.run = tests'[ret'.name] /\ ret'.err = NoError) ]_vars

\* a run with a record was replaced under its own name, and GetTestResult
\* returns the new run, which is current and empty
C14_Witness ==
    \E a \in Runs, b \in Runs :
        /\ a < b
        /\ heap[a].TestName = heap[b].TestName
        /\ Len(heap[a].Operations) > 0
        /\ a \notin Reachable
        /\ currentTest = b
        /\ heap[b].Operations = <<>>
        /\ ret = Returned("GetTestResult", heap[b].TestName, b, NoError)

\* the collector as NewCollector leaves it: an empty table and no current run
Cleared == currentTest = NilRun /\ \A n \in Names : tests[n] = NilRun

\* C15: ResetCollector leaves an empty table and no current run from any state,
\* and from then on, until a StartTest, every step keeps it so, a measured call
\* that finishes included: GetTestResult and EndTest return nil for every name,
\* MeasureOperation and AddCustomMetric return the 'no test' error, and no run
\* changes.
C15_ResetClearsCollector ==
    [][ /\ ResetCollector => Cleared'
        /\ (Cleared /\ Len(heap') = Len(heap))
           => /\ Cleared'
              /\ heap' = heap
              /\ ret'.op \in {"GetTestResult", "EndTest"} => ret'.run = NilRun
              /\ ret'.op = "AddCustomMetric" => ret'.err = ErrNoTest
              /\ (ret'.op = "MeasureOperation" /\ calls' = calls)
                 => ret'.err = ErrNoTest
              /\ Len(calls') = Len(calls) ]_vars

\* the collector was reset while a call was in its callback; the call has
\* returned without a record and the collector is still clear
C15_Witness ==
    \E c \in ReturnedCalls :
        /\ Cleared
        /\ ~ heap[calls[c].startRun].ended
        /\ \A r \in Runs : RecordsOf(r, c) = {}
        /\ ret.op = "MeasureOperation"

\* C16: AddCustomMetric with a run current returns nil and leaves the key, with
\* the value given, in the summary of that run, which is not ended and is the
\* run GetTestResult returns under its name; its records and every other run
\* stay as they were. With no run current it returns the 'no test' error and
\* changes nothing.
C16_CustomMetricVisibleAtOnce ==
    [][ ret'.op = "AddCustomMetric" =>
          IF currentTest = NilRun
          THEN /\ ret'.err = ErrNoTest
               /\ UNCHANGED <<heap, tests, currentTest, calls>>
          ELSE /\ ret'.err = NoError
               /\ ret'.name \in DOMAIN heap'[currentTest].Summary
               /\ heap'[currentTest].Summary[ret'.name] \in CustomValues
               /\ heap'[currentTest].Summary[ret'.name]
                     = heap'[currentTest].custom[ret'.name]
               /\ \A k \in DOMAIN heap[currentTest].Summary \ {ret'.name} :
                     heap'[currentTest].Summary[k] = heap[currentTest].Summary[k]
               /\ heap'[currentTest].Operations = heap[currentTest].Operations
               /\ ~ heap'[currentTest].ended
               /\ tests'[heap[currentTest].TestName] = currentTest
               /\ \A r \in Runs \ {currentTest} : heap'[r] = heap[r]
               /\ UNCHANGED <<tests, currentTest, calls>> ]_vars

\* the current run, which superseded a run left without custom metric, shows
\* the key in its summary before any EndTest
C16_Witness ==
    \E a \in Runs :
        /\ a < currentTest
        /\ ~ heap[a].ended
        /\ heap[a].Summary = EmptyMap
        /\ ~ heap[currentTest].ended
        /\ "note" \in DOMAIN heap[currentTest].Summary
        /\ ret = Returned("AddCustomMetric", "note", NilRun, NoError)

\* every goroutine has returned from its MeasureOperation call
AllReturned == \A g \in Goroutines : goroutines[g].pc = "done"

\* C17: a goroutine whose callback runs does not hold c.mu, the lock is held
\* only within the locked sections of MeasureOperation, AddCustomMetric and
\* GetTestResult, and whatever the callbacks call (nothing, AddCustomMetric,
\* GetTestResult or MeasureOperation) some goroutine can take a step until
\* every call has returned.
C17_CallbackRunsUnlocked ==
    /\ \A g \in Goroutines :
          goroutines[g].pc \in {"callback", "working", "measured"} => mu # g
    /\ mu # Unlocked => goroutines[mu].pc \in {"check", "nested", "append"}
    /\ AllReturned \/ ENABLED NextLock

\* two callbacks are in progress at once, after a callback has called
\* AddCustomMetric and a callback has called MeasureOperation, which returned
C17_Witness ==
    \E g \in Goroutines, h \in Goroutines, c \in ReturnedCalls :
        /\ g # h
        /\ goroutines[g].pc = "working" /\ goroutines[g].stack # <<>>
        /\ goroutines[h].pc = "working" /\ goroutines[h].stack # <<>>
        /\ c > goroutines[g].stack[1]
        /\ c > goroutines[h].stack[1]
        /\ currentTest # NilRun
        /\ heap[currentTest].custom # EmptyMap
        /\ RecordsOf(currentTest, c) # {}

\* ------------------------------------------------------------- Execute
\* Execute has returned, and a run was current from its first statement on
ReturnedInRun == exec.pc = "returned" /\ heap # <<>>

\* the tasks whose MeasureOperation call returned an error
FailedTasks == {t \in DOMAIN exec.workers : exec.workers[t].err # NoError}

\* the items that were not read or written
FailedItems == UNION {TaskItems(exec, t) : t \in FailedTasks}

\* C18: when a parallel Read, or a Write, returns after k of its N items have
\* failed, 0 < k < N, the top-level error is nil, the error list has k entries
\* and ItemsProcessed is N - k.
C18_PartialFailureCounts ==
    ( /\ ReturnedInRun
      /\ exec.op = "Read" => exec.isParallel
      /\ 0 < Cardinality(FailedItems)
      /\ Cardinality(FailedItems) < exec.count )
    => /\ exec.err = NoError
       /\ Len(exec.Errors) = Cardinality(FailedItems)
       /\ exec.ItemsProcessed = exec.count - Cardinality(FailedItems)

\* C19: when Execute returns after the storage calls of all its N >= 1 items
\* have failed, the top-level error is not nil: Read in sequential and parallel
\* mode, Write in individual and batched mode, whatever the batch size.
C19_AllFailedIsAnError ==
    ( /\ exec.pc = "returned"
      /\ exec.count >= 1
      /\ exec.fails = DOMAIN exec.workers )
    => exec.err # NoError

\* C20: when Execute, given a valid identifier source, returns a top-level
\* error, it had at least one item and every item it attempted failed.
C20_ErrorOnlyWhenAllFailed ==
    (exec.pc = "returned" /\ exec.err # NoError /\ ~ RandomSource(exec.params))
    => /\ exec.count >= 1
       /\ FailedTasks = DOMAIN exec.workers

\* the tasks whose storage call has begun and has not returned
InStorage == {t \in DOMAIN exec.workers : exec.workers[t].pc = "storage"}

\* the workers dispatched that have not exited
Running == {t \in DOMAIN exec.workers : exec.workers[t].pc \in {"spawned", "storage", "measured"}}

Min(a, b) == IF a < b THEN a ELSE b

\* C21: while a parallel Read or a batched Write executes, the storage calls in
\* flight, and the workers alive, are never more than the smaller of
\* concurrency and the number of tasks (items, or batches).
C21_InFlightBounded ==
    (exec.pc # "none" /\ exec.isParallel)
    => /\ Cardinality(InStorage) <= Min(exec.concurrency, Len(exec.workers))
       /\ Cardinality(Running) <= Min(exec.concurrency, Len(exec.workers))
       /\ exec.semaphore = Cardinality(Running)

\* as many storage calls in flight as concurrency allows, and a task waiting
\* for a token
C21_Witness ==
    /\ exec.pc = "running"
    /\ exec.isParallel
    /\ exec.concurrency >= 2
    /\ Cardinality(InStorage) = exec.concurrency
    /\ exec.next <= Len(exec.workers)

\* C22: a parallel Read or a batched Write over N >= 1 items that has not
\* returned can always take a step (a dispatch, a worker's step, the wait for
\* all workers or the return), whatever the concurrency, 0 included: it stops
\* nowhere short of its return.
C22_ExecuteNeverStuck ==
    (exec.pc \in {"created", "running", "waited"} /\ exec.isParallel /\ exec.count >= 1)
    => ENABLED NextExecute

\* the entries of the error list, as the set of the tasks they name
ErrorTasks == {exec.Errors[i] : i \in 1..Len(exec.Errors)}

\* C23: no two tasks ever share a MeasureOperation call, and when Execute
\* returns, in either mode, every task has been attempted and its worker has
\* exited, whatever failed before or beside it; with a run current each task
\* made exactly one MeasureOperation call, which ran its storage call and
\* returned, and the tasks that failed are those whose storage call failed; the
\* error list holds exactly one entry per failed task.
C23_EveryTaskOnceNoEarlyExit ==
    /\ exec.pc # "none"
       => \A t \in DOMAIN exec.workers, u \in DOMAIN exec.workers :
             (exec.workers[t].call # 0 /\ exec.workers[t].call = exec.workers[u].call)
             => t = u
    /\ exec.pc = "returned"
       => /\ \A t \in DOMAIN exec.workers : exec.workers[t].pc = "exited"
          /\ ErrorTasks = FailedTasks
          /\ Len(exec.Errors) = Cardinality(FailedTasks)
          /\ heap # <<>>
             => /\ Len(calls) = Len(exec.workers)
                /\ \A t \in DOMAIN exec.workers :
                      /\ exec.workers[t].call \in 1..Len(calls)
                      /\ calls[exec.workers[t].call].pc = "returned"
                      /\ calls[exec.workers[t].call].in = TaskInput(exec, t)
                /\ FailedTasks = exec.fails

\* a parallel execution of three tasks has returned after the first two failed
C23_Witness ==
    /\ exec.pc = "returned"
    /\ heap # <<>>
    /\ exec.isParallel
    /\ Len(exec.workers) = 3
    /\ exec.fails = {1, 2}
    /\ Len(exec.Errors) = 2
    /\ Len(heap[1].Operations) = 3

\* the records of the run in which call c's metric was appended
RecordsOfCall(c) == {i \in 1..Len(heap[1].Operations) : heap[1].Operations[i].call = c}

\* the batches of a Write of count items in batches of batchSize
BatchesOf(count, batchSize) ==
    LET e == [op |-> "Write", isParallel |-> TRUE, count |-> count, batchSize |-> batchSize]
    IN [t \in 1..NumBatches(count, batchSize) |-> BatchItems(e, t)]

\* C24: a batched Write of N items in batches of b dispatches ceil(N/b) batches,
\* which are contiguous and disjoint, cover the items 1..N, and have b items
\* each but for the last, which has what is left (53 items in batches of 25:
\* 25, 25, 3); when it returns with a run current each batch has left one record,
\* whose item count is the batch's length, and when one batch of several failed
\* the error list has one entry and the top-level error is nil.
C24_BatchesPartitionItems ==
    /\ BatchesOf(53, 25) = <<1..25, 26..50, 51..53>>
    /\ Batched(exec)
       => LET batches == BatchesOf(exec.count, exec.batchSize)
              n == Len(batches)
          IN /\ Len(exec.workers) = n
             /\ (n - 1) * exec.batchSize < exec.count \/ exec.count = 0
             /\ n * exec.batchSize >= exec.count
             /\ \A i \in 1..exec.count :
                   Cardinality({t \in 1..n : i \in batches[t]}) = 1
             /\ \A t \in 1..n :
                   /\ batches[t] = ((t - 1) * exec.batchSize + 1)
                                       ..Min(t * exec.batchSize, exec.count)
                   /\ t < n => Cardinality(batches[t]) = exec.batchSize
                   /\ Cardinality(batches[t]) \in 1..exec.batchSize
             /\ ReturnedInRun
                => /\ Len(heap[1].Operations) = n
                   /\ \A t \in 1..n :
                         /\ Cardinality(RecordsOfCall(exec.workers[t].call)) = 1
                         /\ \A i \in RecordsOfCall(exec.workers[t].call) :
                               /\ heap[1].Operations[i].ItemCount = Cardinality(batches[t])
                               /\ heap[1].Operations[i].Type = "BATCH"
                   /\ (n >= 2 /\ Cardinality(exec.fails) = 1)
                      => (Len(exec.Errors) = 1 /\ exec.err = NoError)

\* three items were written in batches of two, the second batch, of one item,
\* failed, and Execute has returned
C24_Witness ==
    /\ ReturnedInRun
    /\ Batched(exec)
    /\ exec.count = 3
    /\ exec.batchSize = 2
    /\ exec.fails = {2}
    /\ Len(exec.Errors) = 1
    /\ exec.err = NoError
    /\ \E i \in 1..2 : heap[1].Operations[i].ItemCount = 1 /\ heap[1].Operations[i].Error # NoError

\* C25: once a Read has read its parameters, with a list supplied it reads the
\* list's identifiers, as many items as the list is long whatever itemCount and
\* useRandomIDs say; without a list and asked for random ids it has returned an
\* error having made no MeasureOperation call, hence no storage call and no
\* record; otherwise it reads accountId-tx-0 .. accountId-tx-(N-1) for itemCount
\* N. result.Data["transactionIDs"] holds these identifiers in that order, and
\* a Read that returns with every read successful has ItemsProcessed = N and no
\* error in its list.
C25_IdentifierSource ==
    (exec.pc \notin {"none", "created"} /\ exec.op = "Read")
    => LET p == exec.params
       IN /\ p.transactionIDs.given
             => /\ exec.transactionIDs = p.transactionIDs.list
                /\ exec.ItemsProcessed = Len(p.transactionIDs.list)
                /\ Len(exec.workers) = Len(p.transactionIDs.list)
          /\ (~ p.transactionIDs.given /\ p.useRandomIDs)
             => /\ exec.pc = "returned"
                /\ exec.err # NoError
                /\ calls = <<>>
                /\ \A r \in Runs : heap[r].Operations = <<>>
                /\ exec.transactionIDs = <<>>
                /\ exec.Errors = <<>>
          /\ (~ p.transactionIDs.given /\ ~ p.useRandomIDs)
             => /\ Len(exec.transactionIDs) = p.itemCount
                /\ \A i \in 1..p.itemCount :
                      exec.transactionIDs[i] = <<DefaultAccount, "tx", i - 1>>
                /\ exec.ItemsProcessed = p.itemCount
                /\ Len(exec.workers) = p.itemCount
          /\ (ReturnedInRun /\ exec.fails = {} /\ ~ RandomSource(p))
             => /\ exec.ItemsProcessed = Len(exec.transactionIDs)
                /\ exec.Errors = <<>>
                /\ Len(heap[1].Operations) = Len(exec.transactionIDs)

\* a Read given two identifiers, an itemCount of another value and
\* useRandomIDs has read the two
C25_Witness ==
    /\ ReturnedInRun
    /\ exec.op = "Read"
    /\ exec.params.transactionIDs.given
    /\ exec.params.useRandomIDs
    /\ Len(exec.params.transactionIDs.list) = 2
    /\ exec.params.itemCount # 2
    /\ exec.transactionIDs = exec.params.transactionIDs.list
    /\ exec.ItemsProcessed = 2
    /\ Len(heap[1].Operations) = 2
    /\ exec.err = NoError

\* ------------------------------------------------------------- Query, the ledger, the handler
\* C26: an Execute of the generic Query, called with a run current, makes one
\* MeasureOperation call of type QUERY and so one storage query, never a second,
\* and once it has returned the run holds exactly one record; when the query
\* failed Execute returns the query's error and its list holds one entry, the
\* error wrapped, and when it succeeded Execute returns no error, an empty list
\* and ItemsProcessed equal to the number of records the backend returned.
C26_QueryOnce ==
    (exec.pc # "none" /\ exec.op = "Query")
    => /\ Len(calls) <= 1
       /\ \A c \in 1..Len(calls) : calls[c].in.type = "QUERY"
       /\ exec.pc \in {"querying", "queried", "returned"} => Len(calls) = 1
       /\ exec.pc \in {"query", "querying", "queried"}
          => heap[1].Operations = <<>> /\ exec.Errors = <<>> /\ exec.err = NoError
       /\ exec.pc = "returned"
          => /\ Len(heap[1].Operations) = 1
             /\ heap[1].Operations[1].Type = "QUERY"
             /\ heap[1].Operations[1].Error = exec.err
             /\ IF 1 \in exec.fails
                THEN /\ exec.err = "e1"
                     /\ exec.Errors = <<QueryFailed("e1")>>
                ELSE /\ exec.err = NoError
                     /\ exec.Errors = <<>>
                     /\ exec.ItemsProcessed = exec.found
                     /\ Len(exec.transactionIDs) = exec.found

\* a query that failed has returned, and the handler has yet to answer
C26_Witness ==
    /\ exec.pc = "returned"
    /\ exec.op = "Query"
    /\ exec.fails = {1}
    /\ exec.err = "e1"
    /\ Len(exec.Errors) = 1
    /\ Len(heap[1].Operations) = 1
    /\ currentTest = 1

\* the Execute in progress is one of a ledger strategy
Ledger == exec.pc # "none" /\ exec.op \in {"ImmuDBWrite", "ImmuDBRead"}

\* C27: an Execute of the ledger write or read ends as the generic ones do: when
\* every storage call it made failed, all N parallel ones or the one batch call,
\* it returns an error, and when only some or none failed it returns none.
C27_LedgerTerminalStates ==
    (Ledger /\ exec.pc = "returned" /\ Len(exec.workers) >= 1)
    => IF exec.fails = DOMAIN exec.workers
       THEN exec.err # NoError
       ELSE exec.err = NoError

\* C28: a ledger write or read in parallel mode never has more storage calls in
\* flight than the concurrency configured.
C28_LedgerInFlightBounded ==
    (Ledger /\ exec.isParallel)
    => Cardinality({t \in DOMAIN exec.workers : exec.workers[t].pc = "storage"})
           <= exec.concurrency

\* the operation types createOperationStrategy has a case for
HandlerTypes ==
    {TypeReadSequential, TypeReadParallel, TypeWrite, TypeWriteBatch, TypeQuery}

\* C29: the handler's factory, which compares the type in lower case, makes a
\* strategy without error for each type it has a case for and none, with an
\* error, for every other string; and until the type has been accepted, and for
\* ever when it is rejected, no call has been made on the storage backend.
C29_UnknownTypeRejected ==
    LET known == ToLower(handler.request.OperationType) \in HandlerTypes
        adapterFailed ==
            handler.response.ErrorMessage = "Failed to create database adapter"
    IN handler.pc # "none"
       => /\ handler.pc = "executing" => known /\ exec.pc # "none"
          /\ (handler.pc = "responded" /\ ~ known)
             => /\ exec.pc = "none"
                /\ ~ handler.response.Success
                /\ handler.response.ErrorMessage # ""
          /\ (handler.pc = "responded" /\ known /\ ~ adapterFailed) => exec.pc # "none"
          /\ (handler.pc \in {"received", "started", "adapter"}
                 \/ (handler.pc = "responded" /\ ~ known))
             => calls = <<>> /\ handler.dbCalls = <<>>

\* C30: when the handler has answered a request whose Read or Write of N >= 1
\* items ran, with metrics not turned off: if some items failed and some did
\* not, the response carries the summary of the ended run, whose errorCount
\* counts the failed records; if every item failed, the response carries an
\* error message and, again, the summary computed from the run's records.
C30_FailuresSummarised ==
    ( /\ handler.pc = "responded"
      /\ exec.pc = "returned"
      /\ exec.op \in {"Read", "Write"}
      /\ exec.count >= 1
      /\ ~ RandomSource(exec.params)
      /\ getParam(handler.request.Parameters, "collectMetrics", "bool", TRUE)
      /\ FailedItems # {} )
    => /\ heap[1].ended
       /\ handler.response.Metrics = heap[1].Summary
       /\ "errorCount" \in DOMAIN handler.response.Metrics
       /\ "successRate" \in DOMAIN handler.response.Metrics
       /\ handler.response.Metrics["errorCount"] = Cardinality(FailedTasks)
       /\ Cardinality(FailedItems) = exec.count => handler.response.ErrorMessage # ""

\* ------------------------------------------------------------- dedicated handlers
\* an invocation of the read-parallel or of the write function
Pooled == handler.pc # "none" /\ handler.fn # ReadSequential

\* the workers that hold task t, and the places of t in a channel
HoldersOf(t) == {w \in DOMAIN handler.workers : handler.workers[w].task = t}

PlacesIn(chan, t) == {i \in 1..Len(chan) : chan[i] = t}

ResultsOf(t) == {i \in 1..Len(handler.results) : handler.results[i].task = t}

\* the steps of the handler and of its workers up to the response made from
\* the results
PoolStep ==
    \/ DedicatedStart
    \/ \E w \in 1..DefaultConcurrency : PoolSpawn(w)
    \/ \E t \in 1..MaxItems : PoolSend(t)
    \/ PoolClose
    \/ \E w \in DOMAIN handler.workers : PoolTake(w) \/ PoolStorage(w) \/ PoolReturn(w) \/ PoolExit(w)
    \/ PoolWait

\* C31: in the read-parallel and write handlers a task that was sent is in one
\* place only: waiting in the task channel, held by one worker, or answered by
\* one result; the response is made only when every worker has exited, from
\* exactly one result per task, the failed ones being those whose storage call
\* failed or was refused; and a handler that has not made its response always
\* has a step to take, whatever the number of tasks (none included) and the
\* concurrency asked for (0 included), after which only EndTest and the return
\* are left.
C31_PoolTasksOnce ==
    Pooled
    => /\ \A t \in 1..Len(handler.tasks) :
             Cardinality(HoldersOf(t)) + Cardinality(PlacesIn(handler.taskChan, t))
                 + Cardinality(ResultsOf(t))
             = IF t <= handler.sent THEN 1 ELSE 0
       /\ \A w \in DOMAIN handler.workers :
             handler.workers[w].pc \in {"storage", "measured"}
             <=> handler.workers[w].task \in 1..Len(handler.tasks)
       /\ handler.pc \in {"processed", "responded"}
          => /\ \A w \in DOMAIN handler.workers : handler.workers[w].pc = "exited"
             /\ Len(handler.results) = Len(handler.tasks)
             /\ \A t \in 1..Len(handler.tasks) : Cardinality(ResultsOf(t)) = 1
             /\ Len(handler.response.Errors)
                    = Cardinality({i \in 1..Len(handler.results) :
                                      handler.results[i].err # NoError})
             /\ heap # <<>>
                => \A i \in 1..Len(handler.results) :
                      handler.results[i].err # NoError
                      <=> handler.results[i].task \in handler.fails
       /\ handler.pc \in {"received", "pool", "wait"} => ENABLED PoolStep
       /\ handler.pc \in {"received", "pool", "wait", "processed", "responded"}

\* three tasks were shared by two workers, each of which answered at least
\* one, the first failed, and the handler has returned
C31_Witness ==
    /\ Pooled
    /\ handler.pc = "responded"
    /\ Len(handler.tasks) = 3
    /\ handler.concurrency = 2
    /\ handler.fails = {1}
    /\ {handler.results[i].worker : i \in 1..3} = {1, 2}
    /\ handler.results[1].task = 2
    /\ handler.response.Errors = <<1>>

\* the index of the p-th percentile among n durations, counted from 0
RankIndex(n, p) == (n * p) \div 100

\* how often v occurs in the sequence d
Occurrences(d, v) == Cardinality({i \in 1..Len(d) : d[i] = v})

\* C32: in an ended run of n >= 10 metrics, p50, p90 and p99 are the durations
\* of rank floor(n*50/100), floor(n*90/100) and floor(n*99/100), counted from 0,
\* among the run's durations in ascending order; each rank is within 0..n-1,
\* and the sequence the percentiles are read from is ascending and holds every
\* recorded duration as often as it was recorded.
C32_PercentilesByRank ==
    \A r \in EndedRuns :
        LET ops == heap[r].Operations
            n == Len(ops)
            sorted == SortDurations(DurationsOf(ops))
        IN n >= 10
           => /\ \A p \in {50, 90, 99} : RankIndex(n, p) \in 0..(n - 1)
              /\ heap[r].Summary["p50"] = RankedDuration(ops, RankIndex(n, 50))
              /\ heap[r].Summary["p90"] = RankedDuration(ops, RankIndex(n, 90))
              /\ heap[r].Summary["p99"] = RankedDuration(ops, RankIndex(n, 99))
              /\ Len(sorted) = n
              /\ \A i \in 1..(n - 1) : sorted[i] <= sorted[i + 1]
              /\ \A i \in 1..n :
                    Occurrences(sorted, ops[i].Duration)
                        = Occurrences(DurationsOf(ops), ops[i].Duration)

\* a run of ten metrics, recorded out of order, has ended with the sixth of its
\* durations in ascending order as p50, above the smallest, and the tenth as
\* p90 and p99, above the sixth
C32_Witness ==
    \E r \in EndedRuns :
        /\ Len(heap[r].Operations) = 10
        /\ heap[r].Operations[1].Duration > heap[r].Operations[2].Duration
        /\ RankedDuration(heap[r].Operations, 0) < RankedDuration(heap[r].Operations, 5)
        /\ RankedDuration(heap[r].Operations, 5) < RankedDuration(heap[r].Operations, 9)
        /\ heap[r].Summary["p50"] = RankedDuration(heap[r].Operations, 5)
        /\ heap[r].Summary["p90"] = RankedDuration(heap[r].Operations, 9)

\* ------------------------------------------------------------- parameters
\* the keys Execute of the generic strategies looks up
LookedUpKeys ==
    {"itemCount", "accountId", "useRandomIDs", "consistentRead", "concurrency",
     "isColdStart", "dataSize", "batchSize", "limit", "transactionIDs"}

Restrict(params, keys) == [k \in DOMAIN params \cap keys |-> params[k]]

\* C33: a lookup returns the value stored under the key when the key is there
\* with a value of the type asked for, and the default of the call otherwise
\* (no such key, or a value of another type); what a strategy made from a map
\* reads is what it reads from the map without the keys it does not look up;
\* and neither the lookup nor the making of the strategy changes the caller's map.
C33_LookupTypedOrDefault ==
    [][ /\ handler'.params = handler.params
        /\ handler'.pc = "looked"
           => LET p == handler.params
                  l == handler.lookup
              IN handler'.result =
                    IF \E v \in ParamValues :
                          l.key \in DOMAIN p /\ p[l.key] = v /\ v.type = l.T
                    THEN p[l.key].value
                    ELSE l.defaultValue
        /\ handler'.pc = "made"
           => LET kept == createOperationStrategy(handler.opType,
                              Restrict(handler.params, LookedUpKeys))
              IN /\ exec' = Execution(kept.op, Backend({}, 0))
                 /\ handler'.input = QueryInput(kept.op.params)
      ]_vars

\* a map held itemCount as a float64 and an unread key: the lookup of an int
\* gave the default, and the strategy made from the map has 100 items
C33_Witness ==
    /\ handler.pc = "made"
    /\ handler.lookup.key = "itemCount"
    /\ "itemCount" \in DOMAIN handler.params
    /\ handler.params["itemCount"] = Typed("float64", 2)
    /\ "note" \in DOMAIN handler.params
    /\ handler.result = 100
    /\ exec.count = 100

\* ------------------------------------------------------------- order of the records
\* the records of the run Execute works in, none when there is no run
ExecuteRecords(h) == IF h = <<>> THEN <<>> ELSE h[1].Operations

\* the tasks whose worker is between its dispatch and its exit
Alive(x) == {t \in DOMAIN x.workers : x.workers[t].pc \in {"spawned", "storage", "measured"}}

\* C34: in both modes the tasks are dispatched in input order; in sequential
\* mode (a Read, or a Write of single items) a task is dispatched only when all
\* tasks before it are over, at most one call is in flight, and record i of the
\* run is the record of task i's call; in every mode a record is appended at
\* the end of the run at the step in which its MeasureOperation call returns,
\* so that in parallel mode the records are in the order of completion.
C34_RecordsInOrder ==
    [][ /\ \A t \in DOMAIN exec'.workers :
              exec'.workers[t].pc # "none"
              => \A u \in 1..(t - 1) : exec'.workers[u].pc # "none"
        /\ ~ exec'.isParallel
           => /\ Cardinality(Alive(exec')) <= 1
              /\ \A t \in DOMAIN exec'.workers :
                    exec'.workers[t].pc # "none"
                    => \A u \in 1..(t - 1) : exec'.workers[u].pc = "exited"
              /\ \A i \in 1..Len(ExecuteRecords(heap')) :
                    ExecuteRecords(heap')[i].call = exec'.workers[i].call
        /\ Len(ExecuteRecords(heap')) > Len(ExecuteRecords(heap))
           => /\ Len(ExecuteRecords(heap')) = Len(ExecuteRecords(heap)) + 1
              /\ SubSeq(ExecuteRecords(heap'), 1, Len(ExecuteRecords(heap)))
                     = ExecuteRecords(heap)
              /\ LET c == ExecuteRecords(heap')[Len(ExecuteRecords(heap'))].call
                 IN calls[c].pc = "measured" /\ calls'[c].pc = "returned"
      ]_vars

\* a parallel Read of three items has returned, and the records of its run are
\* those of the second, the third and the first item, in this order
C34_Witness ==
    /\ ReturnedInRun
    /\ exec.op = "Read"
    /\ exec.isParallel
    /\ Len(exec.workers) = 3
    /\ Len(heap[1].Operations) = 3
    /\ heap[1].Operations[1].call = exec.workers[2].call
    /\ heap[1].Operations[2].call = exec.workers[3].call
    /\ heap[1].Operations[3].call = exec.workers[1].call

\* ------------------------------------------------------------- the current run
\* C35: in every state the collector has no current run, or the current run is
\* an allocated run that the table stores under the run's own name; a run the
\* table does not hold is never current.
C35_CurrentIsStored ==
    currentTest # NilRun
    => /\ currentTest \in Runs
       /\ heap[currentTest].TestName \in Names
       /\ tests[heap[currentTest].TestName] = currentTest
       /\ ~ heap[currentTest].ended

\* a second run was started under the name of the first, which had a record:
\* the second is current and is the one the table stores; the first is neither
C35_Witness ==
    /\ Len(heap) = 2
    /\ heap[1].TestName = heap[2].TestName
    /\ Len(heap[1].Operations) = 1
    /\ currentTest = 2
    /\ tests[heap[2].TestName] = 2
    /\ \A n \in Names : tests[n] # 1

\* C36: every record of every run is the record of a MeasureOperation call
\* that began, passing the check of the current run, while that run was the
\* current one.
C36_RecordsOfOwnRun ==
    \A r \in Runs :
        \A i \in 1..Len(heap[r].Operations) :
            calls[heap[r].Operations[i].call].startRun = r

\* the transactions a ledger write has written: those of the workers whose
\* call returned no error in parallel mode; all of them, or none when the one
\* batch call, a single database transaction, failed
LedgerWritten ==
    IF exec.isParallel
    THEN Cardinality({t \in DOMAIN exec.workers : exec.workers[t].err = NoError})
    ELSE IF exec.workers[1].err = NoError THEN exec.count ELSE 0

\* C37: when Execute of the ledger write returns, in parallel mode or in batch
\* mode, ItemsProcessed is the number of transactions that were written.
C37_LedgerWriteCountsWritten ==
    (exec.pc = "returned" /\ exec.op = "ImmuDBWrite")
    => exec.ItemsProcessed = LedgerWritten

\* ------------------------------------------------------------- no run current
\* a dedicated read handler has answered a request without collectMetrics on a
\* collector that never had a run: no MeasureOperation call reached its
\* callback, nothing was read, and every identifier has its error
DedicatedWithoutRun ==
    (handler.pc = "responded" /\ ~ handler.request.CollectMetrics
        /\ handler.fn \in {ReadParallel, ReadSequential})
    => /\ Len(calls) = 0
       /\ Len(handler.response.Errors) = Len(handler.transactionIDs)
       /\ handler.response.Transactions = 0
       /\ {handler.response.Errors[i] : i \in 1..Len(handler.response.Errors)}
              = 1..Len(handler.transactionIDs)

\* C38: while no run is current no storage call is made: when Execute of a
\* generic Read or Write returns on a collector that never had a run, having
\* had a valid identifier source, no MeasureOperation call has reached its
\* callback, the error list has one entry per item and the error returned is
\* the all-failed one; and a dedicated read handler without collectMetrics on
\* such a collector reads nothing and reports an error for every identifier.
C38_NoRunNoStorage ==
    /\ (exec.pc = "returned" /\ heap = <<>> /\ ~ RandomSource(exec.params))
       => /\ Len(calls) = 0
          /\ Len(exec.Errors) = exec.count
          /\ exec.err = ErrAllFailed
    /\ handler.pc # "none" => DedicatedWithoutRun

\* ------------------------------------------------------------- the run of an invocation
\* C39: when a dedicated handler invoked with collectMetrics returns, whatever
\* time has passed since its StartTest, its EndTest has returned the run its
\* StartTest made, the response carries that run's summary, the run is ended
\* and no run is current.
C39_EndTestNamesStartedRun ==
    (handler.pc = "responded" /\ handler.request.CollectMetrics)
    => /\ handler.testResult = 1
       /\ heap[1].ended
       /\ handler.response.Metrics = heap[1].Summary
       /\ currentTest = NilRun

====
